---- MODULE Spec2Model ----
(***************************************************************************)
(* Model of the change manager of SidekickAI: the FileWriter class of      *)
(* src/utils/fileWriter.ts.  A FileWriter keeps two arrays of FileChange   *)
(* objects, pendingChanges and changeHistory.  The arrays hold references  *)
(* to shared mutable objects, so the model keeps every object ever created *)
(* in `changes` and the two arrays as sequences of indices into it.        *)
(*                                                                         *)
(* The async methods are split at the awaited file operation: the Start    *)
(* action is the synchronous prefix up to the first file read, write or    *)
(* delete, the Complete action is the outcome of that operation followed   *)
(* by the continuation up to the next awaited file operation or the        *)
(* return.  Awaits that resolve without file I/O do not let another file   *)
(* completion in, so they are part of the same step.                       *)
(***************************************************************************)
EXTENDS Integers, Sequences, FiniteSets, TLC

\* ---------------------------------------------------------------- bounds
MaxChanges == 2             \* FileChange objects created in one run
MaxClock == 1               \* last value of Date.now() in one run
RandRange == 1               \* outcomes of the random part of an id (1000 in the code)
MaxInFlight == 2            \* async calls suspended at the same time
MaxRequests == 1            \* sendRequest calls suspended at the same time
MaxText == 6                \* characters of a response text given to parseAIResponse
HistPending == 3            \* pending changes of a FileWriter whose history is nearly full
HistSlack == 2              \* how far below its capacity that history starts
QueryHist == 3              \* longest history the query methods are asked about

\* ------------------------------------------------------------- constants
maxHistorySize == 100
DefaultLimit == 50          \* getChangeHistory(limit: number = 50)
LongContent == 100          \* content.length > 100
LongExplanation == 200      \* type === 'explain' && content.length > 200
VeryLongContent == 500      \* content.length > 500

Paths == {"/t/a.ts", "/t/b.ts"}
NewContents == {"X"}
NoFile == "<no file>"
FileStates == {NoFile, "", "O", "X"}

EditTypes == {"create", "modify", "delete"}
ChangeStatus == {"pending", "applied", "failed", "cancelled"}

BogusId == -1               \* a string no generateChangeId call returns
IssuableIds == 0 .. ((MaxClock + 1) * RandRange - 1)
ChangeIds == IssuableIds \cup {BogusId}
Slots == 1 .. MaxInFlight

VARIABLES
    changes,          \* every FileChange object created, in creation order
    pendingChanges,   \* FileWriter.pendingChanges: indices into changes
    changeHistory,    \* FileWriter.changeHistory: indices into changes
    fs,               \* the file system: path -> content or NoFile
    now,              \* Date.now()
    tasks,            \* the async calls suspended at a file operation
    limit,            \* how many calls may be in flight (1 = sequential use)
    last              \* the call step just taken and what it returned (Observe)

\* The AIService of src/ai/aiService.ts, the router to the AI providers.
VARIABLES
    currentProvider,  \* AIService.currentProvider
    config,           \* AIService.config: apiKey, baseUrl, model
    httpClient,       \* AIService.httpClient: the headers of the axios instance
    requests,         \* the sendRequest calls suspended at their HTTP POST
    aiLast            \* the AIService call step just taken and what it returned

aiVars == <<currentProvider, config, httpClient, requests, aiLast>>

fwVars == <<changes, pendingChanges, changeHistory, fs, now, tasks, limit, last>>

vars == <<changes, pendingChanges, changeHistory, fs, now, tasks, limit, last,
          currentProvider, config, httpClient, requests, aiLast>>

\* --------------------------------------------------------------- helpers
\* No FileEditRequest and no FileEditOptions: the call was not applyAIGeneratedCode.
NoRequest ==
    [editType |-> "none", filePath |-> "", newContent |-> "",
     originalContent |-> "", description |-> ""]

NoOptions ==
    [dryRun |-> FALSE, askConfirmation |-> FALSE,
     autoConfirmNonDestructive |-> FALSE, trackChanges |-> FALSE]

NoCall ==
    [op |-> "none", dryRun |-> FALSE, ret |-> "none",
     msg |-> <<>>, change |-> 0, io |-> "none", batch |-> "none",
     successful |-> 0, failed |-> 0, n |-> 0, snapshot |-> <<>>,
     attempted |-> <<>>, opOk |-> 0, before |-> "none", again |-> FALSE,
     isDestructive |-> FALSE, canUndo |-> FALSE,
     isValid |-> FALSE, errors |-> {}, warnings |-> {},
     request |-> NoRequest, options |-> NoOptions, choice |-> "none",
     edited |-> "none"]

IdleTask ==
    [kind |-> "idle", change |-> 0, path |-> "", content |-> "",
     snapshot |-> <<>>, i |-> 0, successful |-> 0, failed |-> 0,
     attempted |-> <<>>, opOk |-> 0, before |-> "none", again |-> FALSE,
     call |-> NoCall]

InFlight == Cardinality({s \in Slots : tasks[s].kind # "idle"})

Staging == Cardinality({s \in Slots : tasks[s].kind \in {"modifyFile", "deleteFile"}})

CanStart == InFlight < limit

\* `last` observes one caller: it is recorded when calls are issued one at a
\* time and left blank when calls interleave.
Observe(call) == IF limit = 1 THEN call ELSE NoCall

FreeSlot ==
    CHOOSE s \in Slots : /\ tasks[s].kind = "idle"
                         /\ \A s2 \in Slots : s2 < s => tasks[s2].kind # "idle"

\* Array.prototype.find / findIndex with the predicate c => c.id === changeId:
\* the position of the first element with that id, 0 for none.
FindIndex(arr, changeId) ==
    IF \E j \in 1 .. Len(arr) : changes[arr[j]].id = changeId
    THEN CHOOSE j \in 1 .. Len(arr) :
            /\ changes[arr[j]].id = changeId
            /\ \A k \in 1 .. (j - 1) : changes[arr[k]].id # changeId
    ELSE 0

\* Array.prototype.splice(index, 1)
Splice(arr, j) == SubSeq(arr, 1, j - 1) \o SubSeq(arr, j + 1, Len(arr))

\* A slice that keeps the first n elements: slice(0, n).
SliceLast_first(arr, n) ==
    IF Len(arr) > n THEN SubSeq(arr, 1, n) ELSE arr

\* Array.prototype.slice(-n) for n > 0
SliceLast(arr, n) ==
    IF Len(arr) > n THEN SubSeq(arr, Len(arr) - n + 1, Len(arr)) ELSE arr

\* Array.prototype.slice(start): a negative start counts from the end, and
\* the start is clamped to 0 .. length.  -0 is 0.
Slice(arr, start) ==
    LET from == IF start < 0
                THEN (IF Len(arr) + start < 0 THEN 0 ELSE Len(arr) + start)
                ELSE (IF start > Len(arr) THEN Len(arr) ELSE start)
    IN  SubSeq(arr, from + 1, Len(arr))

\* `change_${Date.now()}_${Math.floor(Math.random() * 1000)}`
generateChangeId(r) == now * RandRange + r

\* The outcomes the file system can give an operation on a path: a delete of
\* a file that does not exist always fails, anything else may fail or not.
DeleteOutcomes(f, path) == IF f[path] = NoFile THEN {FALSE} ELSE BOOLEAN
WriteOutcomes == BOOLEAN
ReadOutcomes(f, path) == IF f[path] = NoFile THEN {FALSE} ELSE BOOLEAN

\* writeFileContent: the file holds the content when the write succeeds;
\* a failed createDirectory or writeFile throws and leaves the file alone.
writeFileContent(f, path, content, ok) ==
    IF ok THEN [f EXCEPT ![path] = content] ELSE f

\* deleteFilePhysically: catches the error and returns false.
deleteFilePhysically(f, path, ok) ==
    [fs |-> IF ok THEN [f EXCEPT ![path] = NoFile] ELSE f, ret |-> ok]

\* A moveToHistory that pushes the change without taking it out of the
\* pending array.
moveToHistoryPending_keep(pend, c) == pend

\* moveToHistory: remove the first pending element with the change's id,
\* push the change, keep the last maxHistorySize records.
moveToHistoryPending(pend, c) ==
    LET index == FindIndex(pend, changes[c].id)
    IN  IF index # 0 THEN Splice(pend, index) ELSE pend

moveToHistoryHistory(hist, c) ==
    LET pushed == Append(hist, c)
    IN  IF Len(pushed) > maxHistorySize
        THEN SliceLast(pushed, maxHistorySize) ELSE pushed

\* executeChange: the file operation of a change and the boolean it returns.
\* The result of deleteFilePhysically is dropped, so a delete returns true.
\* The Insert case, which reads the file first, is executeChangeInsert.
executeChange(f, c, ok) ==
    LET ch == changes[c]
    IN  CASE ch.changeType = "create" ->
                [fs |-> writeFileContent(f, ch.filePath, ch.newContent, ok), ret |-> ok]
          [] ch.changeType \in {"modify", "replace"} ->
                [fs |-> writeFileContent(f, ch.filePath, ch.newContent, ok), ret |-> ok]
          [] ch.changeType = "delete" ->
                [fs |-> deleteFilePhysically(f, ch.filePath, ok).fs, ret |-> TRUE]

ExecuteOutcomes(f, c) ==
    IF changes[c].changeType = "delete"
    THEN DeleteOutcomes(f, changes[c].filePath) ELSE WriteOutcomes

\* A change that is born Applied.
NewChange_applied(id, path, orig, new, type) ==
    [id |-> id, filePath |-> path, originalContent |-> orig,
     newContent |-> new, changeType |-> type, status |-> "applied"]

NewChange(id, path, orig, new, type) ==
    [id |-> id, filePath |-> path, originalContent |-> orig,
     newContent |-> new, changeType |-> type, status |-> "pending"]

\* ------------------------------------------- AIService: configuration
\* enum AIProvider, and a value outside it (the setting is a free string).
AIProvider == {"openai", "claude", "ollama", "lmstudio", "vllm"}
HostedProviders == {"openai", "claude"}
LocalProviders == {"ollama", "lmstudio", "vllm"}
UnknownProvider == "cohere"

\* AIServiceOptions as the settings can hold them.  An apiKey or baseUrl of
\* "" stands for one that is not set (undefined and '' are both falsy).
AIOption(provider, apiKey, baseUrl) ==
    [provider |-> provider, apiKey |-> apiKey, baseUrl |-> baseUrl, model |-> "m"]

AIOptions ==
    {AIOption("openai", "k1", ""), AIOption("openai", "k2", ""),
     AIOption("openai", "", ""),
     AIOption("claude", "k1", ""), AIOption("claude", "", ""),
     AIOption("ollama", "k1", ""), AIOption("ollama", "", "http://h"),
     AIOption("lmstudio", "", ""), AIOption("vllm", "k2", "http://h"),
     AIOption(UnknownProvider, "k1", "")}

RequestSlots == 1 .. MaxRequests

\* The config object the constructor and updateOptions build from the options.
ConfigOf(options) ==
    [apiKey |-> options.apiKey, baseUrl |-> options.baseUrl, model |-> options.model]

\* createHttpClient: the default headers of the axios instance.  A header
\* is a pair of its name and the parts of its value.
createHttpClient(provider, cfg) ==
    [headers |->
        {<<"Content-Type", <<"application/json">>>>,
         <<"User-Agent", <<"Sidekick-AI-VSCode/1.0.0">>>>}
        \cup
        (IF provider = "openai" /\ cfg.apiKey # ""
         THEN {<<"Authorization", <<"Bearer ", cfg.apiKey>>>>}
         ELSE IF provider = "claude" /\ cfg.apiKey # ""
         THEN {<<"x-api-key", <<cfg.apiKey>>>>,
               <<"anthropic-version", <<"2023-06-01">>>>}
         ELSE {})]

\* No error: the value of the error fields while nothing has failed.
NoError == [axios |-> FALSE, status |-> "", code |-> "", message |-> <<>>]

\* The metadata argument of parseAIResponse when a handler gives none of
\* the two fields calculateConfidence reads.
Undefined == "<undefined>"

NoMetadata == [present |-> FALSE, finishReason |-> Undefined, stopReason |-> Undefined]

IdleRequest ==
    [kind |-> "idle", type |-> "none", caller |-> "none", provider |-> "none",
     url |-> <<>>, headers |-> {}, posts |-> 0]

\* The observation of the last call: ret is what the call of the caller did
\* ("suspended" at its await), outcome how sendRequest itself settled,
\* provider the provider dispatched on (for updateOptions: the provider
\* before the call, with the headers of the client before the call).
NoAICall ==
    [op |-> "none", ret |-> "none", caller |-> "none", type |-> "none",
     provider |-> "none", url |-> <<>>, headers |-> {}, posts |-> 0,
     outcome |-> "none", error |-> NoError, msg |-> <<>>, activity |-> <<>>,
     content |-> <<>>, code |-> <<>>, explanation |-> <<>>,
     metadata |-> NoMetadata, confidence |-> 0]

\* The AIService after `new AIService(logger, options)`.
AIConstructed(options) ==
    /\ currentProvider = options.provider
    /\ config = ConfigOf(options)
    /\ httpClient = createHttpClient(options.provider, ConfigOf(options))
    /\ requests = [s \in RequestSlots |-> IdleRequest]
    /\ aiLast = NoAICall

\* ------------------------------------------------------------------ Init
FileWriterConstructed ==
    /\ changes = <<>>
    /\ pendingChanges = <<>>
    /\ changeHistory = <<>>
    /\ fs = [p \in Paths |-> IF p = "/t/a.ts" THEN "O" ELSE NoFile]
    /\ now = 0
    /\ tasks = [s \in Slots |-> IdleTask]
    /\ last = NoCall

InitCommon ==
    /\ FileWriterConstructed
    /\ AIConstructed(AIOption("openai", "k1", ""))

Init == InitCommon /\ limit = 1

InitConc == InitCommon /\ limit = MaxInFlight

\* --------------------------------------------------------------- actions
\* Date.now() advances between calls.  The clock is only read by
\* generateChangeId, so it stops once no further change can be created.
Tick ==
    /\ now < MaxClock
    /\ Len(changes) + Staging < MaxChanges
    /\ now' = now + 1
    /\ last' = NoCall
    /\ UNCHANGED <<changes, pendingChanges, changeHistory, fs, tasks, limit>>
    /\ UNCHANGED aiVars

\* createFile has no awaited operation: one step.
createFile(path, content, r) ==
    /\ CanStart
    /\ Len(changes) + Staging < MaxChanges
    /\ LET change == NewChange(generateChangeId(r), path, "", content, "create")
           c == Len(changes) + 1
       IN  /\ changes' = Append(changes, change)
           /\ pendingChanges' = Append(pendingChanges, c)
           /\ last' = Observe([NoCall EXCEPT !.op = "createFile", !.ret = "change", !.change = c])
    /\ UNCHANGED <<changeHistory, fs, now, tasks, limit>>
    /\ UNCHANGED aiVars

\* A read that falls back to the empty string only when there is no file.
readOriginalContent_stale(f, path, readOk) ==
    IF f[path] = NoFile THEN "" ELSE f[path]

\* `originalContent = document.getText()` inside try, '' when
\* openTextDocument throws.
readOriginalContent(f, path, readOk) ==
    IF readOk THEN f[path] ELSE ""

\* modifyFile: suspended at openTextDocument, then builds and queues the change.
modifyFile(path, content) ==
    /\ CanStart
    /\ Len(changes) + Staging < MaxChanges
    /\ tasks' = [tasks EXCEPT ![FreeSlot] =
                    [IdleTask EXCEPT !.kind = "modifyFile", !.path = path,
                                     !.content = content]]
    /\ last' = Observe([NoCall EXCEPT !.op = "modifyFile", !.ret = "suspended"])
    /\ UNCHANGED <<changes, pendingChanges, changeHistory, fs, now, limit>>
    /\ UNCHANGED aiVars

modifyFileComplete(s, r) ==
    /\ tasks[s].kind = "modifyFile"
    /\ \E readOk \in ReadOutcomes(fs, tasks[s].path) :
         LET originalContent == readOriginalContent(fs, tasks[s].path, readOk)
             change == NewChange(generateChangeId(r), tasks[s].path,
                                 originalContent, tasks[s].content, "modify")
             c == Len(changes) + 1
         IN  /\ changes' = Append(changes, change)
             /\ pendingChanges' = Append(pendingChanges, c)
             /\ last' = Observe([NoCall EXCEPT !.op = "modifyFile", !.ret = "change", !.change = c,
                                       !.io = IF readOk THEN "ok" ELSE "fail"])
    /\ tasks' = [tasks EXCEPT ![s] = IdleTask]
    /\ UNCHANGED <<changeHistory, fs, now, limit>>
    /\ UNCHANGED aiVars

\* deleteFile: suspended at openTextDocument, then builds and queues the change.
deleteFile(path) ==
    /\ CanStart
    /\ Len(changes) + Staging < MaxChanges
    /\ tasks' = [tasks EXCEPT ![FreeSlot] =
                    [IdleTask EXCEPT !.kind = "deleteFile", !.path = path]]
    /\ last' = Observe([NoCall EXCEPT !.op = "deleteFile", !.ret = "suspended"])
    /\ UNCHANGED <<changes, pendingChanges, changeHistory, fs, now, limit>>
    /\ UNCHANGED aiVars

deleteFileComplete(s, r) ==
    /\ tasks[s].kind = "deleteFile"
    /\ \E readOk \in ReadOutcomes(fs, tasks[s].path) :
         LET originalContent == readOriginalContent(fs, tasks[s].path, readOk)
             change == NewChange(generateChangeId(r), tasks[s].path,
                                 originalContent, "", "delete")
             c == Len(changes) + 1
         IN  /\ changes' = Append(changes, change)
             /\ pendingChanges' = Append(pendingChanges, c)
             /\ last' = Observe([NoCall EXCEPT !.op = "deleteFile", !.ret = "change", !.change = c,
                                       !.io = IF readOk THEN "ok" ELSE "fail"])
    /\ tasks' = [tasks EXCEPT ![s] = IdleTask]
    /\ UNCHANGED <<changeHistory, fs, now, limit>>
    /\ UNCHANGED aiVars

\* The continuation of applyChange after `await this.executeChange(change)`:
\* the file system, the objects and the two arrays it leaves, and its result.
ApplyEffectOf(c, ex) ==
        IF ex.ret
        THEN [fs |-> ex.fs,
              changes |-> [changes EXCEPT ![c].status = "applied"],
              pendingChanges |-> moveToHistoryPending(pendingChanges, c),
              changeHistory |-> moveToHistoryHistory(changeHistory, c),
              ret |-> TRUE]
        ELSE [fs |-> ex.fs,
              changes |-> [changes EXCEPT ![c].status = "failed"],
              pendingChanges |-> pendingChanges,
              changeHistory |-> changeHistory,
              ret |-> FALSE]

ApplyEffect(c, ok) == ApplyEffectOf(c, executeChange(fs, c, ok))

\* An applyChange that does not look at its dryRun argument.
applyChangeBranch_nodry(changeId, dryRun) ==
    IF FindIndex(pendingChanges, changeId) = 0 THEN "throw" ELSE "execute"

\* The branch applyChange takes before any file operation: it rejects when
\* the id is not in the pending array, returns true at once in a dry run,
\* and goes on to executeChange otherwise.
applyChangeBranch(changeId, dryRun) ==
    IF FindIndex(pendingChanges, changeId) = 0 THEN "throw"
    ELSE IF dryRun THEN "true"
    ELSE "execute"

\* An error message that leaves the id out.
NotFoundMessage_noid(changeId) == <<"Change not found">>

\* `Change not found: ${changeId}`
NotFoundMessage(changeId) == <<"Change not found: ", changeId>>

\* applyChange up to the awaited executeChange.
applyChange(changeId, dryRun) ==
    /\ CanStart
    /\ LET index == FindIndex(pendingChanges, changeId)
           branch == applyChangeBranch(changeId, dryRun)
           call == [NoCall EXCEPT !.op = "applyChange", !.dryRun = dryRun]
       IN  CASE branch = "throw" ->
                /\ last' = Observe([call EXCEPT !.ret = "throw",
                                                !.msg = NotFoundMessage(changeId)])
                /\ tasks' = tasks
             [] branch = "true" ->
                /\ last' = Observe([call EXCEPT !.ret = "true",
                                                !.change = pendingChanges[index]])
                /\ tasks' = tasks
             [] branch = "execute" ->
                /\ last' = Observe([call EXCEPT !.ret = "suspended",
                                                !.change = pendingChanges[index]])
                /\ tasks' = [tasks EXCEPT ![FreeSlot] =
                                [IdleTask EXCEPT !.kind = "applyChange",
                                                 !.change = pendingChanges[index]]]
    /\ UNCHANGED <<changes, pendingChanges, changeHistory, fs, now, limit>>
    /\ UNCHANGED aiVars

applyChangeComplete(s) ==
    /\ tasks[s].kind = "applyChange"
    /\ \E ok \in ExecuteOutcomes(fs, tasks[s].change) :
         LET c == tasks[s].change
             eff == ApplyEffect(c, ok)
         IN  /\ fs' = eff.fs
             /\ changes' = eff.changes
             /\ pendingChanges' = eff.pendingChanges
             /\ changeHistory' = eff.changeHistory
             /\ last' = Observe([NoCall EXCEPT !.op = "applyChange",
                                       !.ret = IF eff.ret THEN "true" ELSE "false",
                                       !.change = c,
                                       !.io = IF ok THEN "ok" ELSE "fail",
                                       !.before = fs[changes[c].filePath]])
    /\ tasks' = [tasks EXCEPT ![s] = IdleTask]
    /\ UNCHANGED <<now, limit>>
    /\ UNCHANGED aiVars

\* The loop of applyAllChanges from position `from` of its snapshot, with the
\* pending array `pend`: an applyChange whose lookup finds nothing rejects at
\* once and is tallied as failed, so the loop runs on to the first position
\* whose id is pending (Len + 1 when there is none).
NextHit(snapshot, from, pend) ==
    IF \E j \in from .. Len(snapshot) : FindIndex(pend, changes[snapshot[j]].id) # 0
    THEN CHOOSE j \in from .. Len(snapshot) :
            /\ FindIndex(pend, changes[snapshot[j]].id) # 0
            /\ \A k \in from .. (j - 1) : FindIndex(pend, changes[snapshot[k]].id) = 0
    ELSE Len(snapshot) + 1

\* The object the applyChange call of loop position j works on.
HitChange(snapshot, j, pend) ==
    pend[FindIndex(pend, changes[snapshot[j]].id)]

\* applyAllChanges up to its first awaited file operation.  In a dry run no
\* applyChange call awaits one, so the whole loop is this step.
applyAllChanges(dryRun) ==
    /\ CanStart
    /\ LET snapshot == pendingChanges
           n == Len(snapshot)
           found == {j \in 1 .. n :
                        applyChangeBranch(changes[snapshot[j]].id, dryRun) = "true"}
           hit == NextHit(snapshot, 1, pendingChanges)
           call == [NoCall EXCEPT !.op = "applyAllChanges", !.dryRun = dryRun,
                                  !.n = n, !.snapshot = snapshot]
       IN  IF dryRun
           THEN /\ last' = Observe([call EXCEPT !.ret = "result", !.batch = "done",
                                        !.successful = Cardinality(found),
                                        !.failed = n - Cardinality(found)])
                /\ tasks' = tasks
           ELSE IF hit > n
           THEN /\ last' = Observe([call EXCEPT !.ret = "result", !.batch = "done",
                                        !.successful = 0, !.failed = n])
                /\ tasks' = tasks
           ELSE /\ last' = Observe([call EXCEPT !.ret = "suspended", !.batch = "running",
                                        !.change = HitChange(snapshot, hit, pendingChanges)])
                /\ tasks' = [tasks EXCEPT ![FreeSlot] =
                                [IdleTask EXCEPT
                                    !.kind = "applyAllChanges",
                                    !.snapshot = snapshot,
                                    !.i = hit,
                                    !.failed = hit - 1,
                                    !.change = HitChange(snapshot, hit, pendingChanges)]]
    /\ UNCHANGED <<changes, pendingChanges, changeHistory, fs, now, limit>>
    /\ UNCHANGED aiVars

\* The file operation of the current applyChange call of the loop completes:
\* that call returns, is tallied, and the loop runs on to the next awaited
\* file operation or to the return of applyAllChanges.
applyAllChangesComplete(s) ==
    /\ tasks[s].kind = "applyAllChanges"
    /\ \E ok \in ExecuteOutcomes(fs, tasks[s].change) :
         LET t == tasks[s]
             c == t.change
             n == Len(t.snapshot)
             eff == ApplyEffect(c, ok)
             successful == IF eff.ret THEN t.successful + 1 ELSE t.successful
             failed == IF eff.ret THEN t.failed ELSE t.failed + 1
             hit == NextHit(t.snapshot, t.i + 1, eff.pendingChanges)
             attempted == Append(t.attempted, c)
             opOk == IF ok THEN t.opOk + 1 ELSE t.opOk
             call == [NoCall EXCEPT !.op = "applyChange",
                                    !.ret = IF eff.ret THEN "true" ELSE "false",
                                    !.change = c,
                                    !.io = IF ok THEN "ok" ELSE "fail",
                                    !.n = n, !.snapshot = t.snapshot,
                                    !.attempted = attempted,
                                    !.opOk = opOk,
                                    !.before = fs[changes[c].filePath]]
         IN  /\ fs' = eff.fs
             /\ changes' = eff.changes
             /\ pendingChanges' = eff.pendingChanges
             /\ changeHistory' = eff.changeHistory
             /\ IF hit > n
                THEN /\ last' = Observe([call EXCEPT !.batch = "done",
                                             !.successful = successful,
                                             !.failed = failed + (n - t.i)])
                     /\ tasks' = [tasks EXCEPT ![s] = IdleTask]
                ELSE /\ last' = Observe([call EXCEPT !.batch = "running"])
                     /\ tasks' = [tasks EXCEPT ![s] =
                                    [t EXCEPT !.i = hit,
                                              !.successful = successful,
                                              !.failed = failed + (hit - t.i - 1),
                                              !.attempted = attempted,
                                              !.opOk = opOk,
                                              !.change = HitChange(t.snapshot, hit, eff.pendingChanges)]]
    /\ UNCHANGED <<now, limit>>
    /\ UNCHANGED aiVars

\* cancelChange is synchronous.
cancelChange(changeId) ==
    /\ CanStart
    /\ LET index == FindIndex(pendingChanges, changeId)
           call == [NoCall EXCEPT !.op = "cancelChange"]
       IN  IF index = 0
           THEN /\ last' = Observe([call EXCEPT !.ret = "false"])
                /\ UNCHANGED <<changes, pendingChanges>>
           ELSE /\ changes' = [changes EXCEPT ![pendingChanges[index]].status = "cancelled"]
                /\ pendingChanges' = Splice(pendingChanges, index)
                /\ last' = Observe([call EXCEPT !.ret = "true", !.change = pendingChanges[index]])
    /\ UNCHANGED <<changeHistory, fs, now, tasks, limit>>
    /\ UNCHANGED aiVars

\* clearPendingChanges is synchronous.
clearPendingChanges ==
    /\ CanStart
    /\ changes' = [c \in 1 .. Len(changes) |->
                    IF \E j \in 1 .. Len(pendingChanges) : pendingChanges[j] = c
                    THEN [changes[c] EXCEPT !.status = "cancelled"]
                    ELSE changes[c]]
    /\ pendingChanges' = <<>>
    /\ last' = Observe([NoCall EXCEPT !.op = "clearPendingChanges", !.ret = "count",
                              !.n = Len(pendingChanges)])
    /\ UNCHANGED <<changeHistory, fs, now, tasks, limit>>
    /\ UNCHANGED aiVars

\* What the observer remembers when an undoChange call follows the return of
\* the applyChange call for the same change: the file the path held before
\* that apply ("none" when the undo does not directly follow the apply).
BeforeApply(c) ==
    IF last.op = "applyChange" /\ last.io # "none" /\ last.change = c
    THEN last.before ELSE "none"

\* What the observer remembers when an undoChange call follows the return of
\* an undoChange call that ran the inverse operation of the same change.
UndoneJustBefore(c) ==
    last.op = "undoChange" /\ last.io # "none" /\ last.change = c

\* An undoChange that takes any change with the id, wherever it is and
\* whatever its status.
undoChangeTarget_any(changeId) ==
    IF \E c \in 1 .. Len(changes) : changes[c].id = changeId
    THEN CHOOSE c \in 1 .. Len(changes) :
            /\ changes[c].id = changeId
            /\ \A d \in 1 .. (c - 1) : changes[d].id # changeId
    ELSE 0

\* The change undoChange works on: the first history record with the id, if
\* its status is Applied; 0 when `!change || change.status !== APPLIED`.
undoChangeTarget(changeId) ==
    LET index == FindIndex(changeHistory, changeId)
    IN  IF index = 0 THEN 0
        ELSE IF changes[changeHistory[index]].status # "applied" THEN 0
        ELSE changeHistory[index]

\* undoChange up to its awaited file operation: the lookup in the history.
undoChange(changeId) ==
    /\ CanStart
    /\ LET c == undoChangeTarget(changeId)
           call == [NoCall EXCEPT !.op = "undoChange"]
       IN  IF c = 0
           THEN /\ last' = Observe([call EXCEPT !.ret = "false"])
                /\ tasks' = tasks
           ELSE /\ last' = Observe([call EXCEPT !.ret = "suspended",
                                        !.change = c,
                                        !.before = BeforeApply(c),
                                        !.again = UndoneJustBefore(c)])
                /\ tasks' = [tasks EXCEPT ![FreeSlot] =
                                [IdleTask EXCEPT !.kind = "undoChange",
                                                 !.change = c,
                                                 !.before = BeforeApply(c),
                                                 !.again = UndoneJustBefore(c)]]
    /\ UNCHANGED <<changes, pendingChanges, changeHistory, fs, now, limit>>
    /\ UNCHANGED aiVars

\* The inverse file operation of undoChange and its result.  `success` is
\* assigned the result of deleteFilePhysically for a created file and the
\* (void) result of writeFileContent otherwise; a throwing write is caught.
undoChangeComplete(s) ==
    /\ tasks[s].kind = "undoChange"
    /\ LET c == tasks[s].change
           ch == changes[c]
       IN  \E ok \in (IF ch.changeType = "create"
                      THEN DeleteOutcomes(fs, ch.filePath) ELSE WriteOutcomes) :
             /\ fs' = IF ch.changeType = "create"
                      THEN deleteFilePhysically(fs, ch.filePath, ok).fs
                      ELSE writeFileContent(fs, ch.filePath, ch.originalContent, ok)
             /\ last' = Observe([NoCall EXCEPT
                            !.op = "undoChange", !.change = c,
                            !.io = IF ok THEN "ok" ELSE "fail",
                            !.before = tasks[s].before,
                            !.again = tasks[s].again,
                            !.ret = IF ch.changeType = "create"
                                    THEN (IF ok THEN "true" ELSE "false")
                                    ELSE (IF ok THEN "undefined" ELSE "false")])
    /\ tasks' = [tasks EXCEPT ![s] = IdleTask]
    /\ UNCHANGED <<changes, pendingChanges, changeHistory, now, limit>>
    /\ UNCHANGED aiVars

\* ------------------------------------------------------------------ Next
Next ==
    \/ Tick
    \/ \E p \in Paths, x \in NewContents, r \in 0 .. (RandRange - 1) : createFile(p, x, r)
    \/ \E p \in Paths, x \in NewContents : modifyFile(p, x)
    \/ \E s \in Slots, r \in 0 .. (RandRange - 1) : modifyFileComplete(s, r)
    \/ \E p \in Paths : deleteFile(p)
    \/ \E s \in Slots, r \in 0 .. (RandRange - 1) : deleteFileComplete(s, r)
    \/ \E id \in ChangeIds, dryRun \in BOOLEAN : applyChange(id, dryRun)
    \/ \E s \in Slots : applyChangeComplete(s)
    \/ \E dryRun \in BOOLEAN : applyAllChanges(dryRun)
    \/ \E s \in Slots : applyAllChangesComplete(s)
    \/ \E id \in ChangeIds : cancelChange(id)
    \/ clearPendingChanges
    \/ \E id \in ChangeIds : undoChange(id)
    \/ \E s \in Slots : undoChangeComplete(s)

\* One call at a time: every call runs to its return before the next starts.
Spec == Init /\ [][Next]_vars

\* Calls issued while others are suspended at their file operations.
SpecConc == InitConc /\ [][Next]_vars

\* Interleaved calls of the methods that stage, apply and cancel changes:
\* here cancelChange is the only way a change gets the status Cancelled.
NextCancel ==
    \/ Tick
    \/ \E p \in Paths, x \in NewContents, r \in 0 .. (RandRange - 1) : createFile(p, x, r)
    \/ \E p \in Paths, x \in NewContents : modifyFile(p, x)
    \/ \E s \in Slots, r \in 0 .. (RandRange - 1) : modifyFileComplete(s, r)
    \/ \E id \in ChangeIds, dryRun \in BOOLEAN : applyChange(id, dryRun)
    \/ \E s \in Slots : applyChangeComplete(s)
    \/ \E dryRun \in BOOLEAN : applyAllChanges(dryRun)
    \/ \E s \in Slots : applyAllChangesComplete(s)
    \/ \E id \in ChangeIds : cancelChange(id)

SpecCancel == InitConc /\ [][NextCancel]_vars

\* ------------------------------------------------- a nearly full history
\* A FileWriter that has applied close to maxHistorySize createFile changes,
\* one per millisecond, and holds HistPending more that are still pending.
HistStartLens == (maxHistorySize - HistSlack) .. maxHistorySize

HistIds == (maxHistorySize - HistSlack + 1) .. (maxHistorySize + HistPending)

HistChange(c) ==
    NewChange(c, IF c % 2 = 0 THEN "/t/a.ts" ELSE "/t/b.ts", "", "X", "create")

InitHistory ==
    /\ \E h \in HistStartLens :
          /\ changes = [c \in 1 .. (h + HistPending) |->
                          IF c <= h THEN [HistChange(c) EXCEPT !.status = "applied"]
                          ELSE HistChange(c)]
          /\ changeHistory = [k \in 1 .. h |-> k]
          /\ pendingChanges = [k \in 1 .. HistPending |-> h + k]
    /\ fs = [p \in Paths |-> "X"]
    /\ now = maxHistorySize + HistPending
    /\ tasks = [s \in Slots |-> IdleTask]
    /\ limit = 1
    /\ last = NoCall
    /\ AIConstructed(AIOption("openai", "k1", ""))

\* The calls that work on changes already staged.
NextHistory ==
    \/ \E id \in HistIds, dryRun \in BOOLEAN : applyChange(id, dryRun)
    \/ \E s \in Slots : applyChangeComplete(s)
    \/ \E dryRun \in BOOLEAN : applyAllChanges(dryRun)
    \/ \E s \in Slots : applyAllChangesComplete(s)
    \/ \E id \in HistIds : cancelChange(id)
    \/ clearPendingChanges
    \/ \E id \in HistIds : undoChange(id)
    \/ \E s \in Slots : undoChangeComplete(s)

SpecHistory == InitHistory /\ [][NextHistory]_vars

\* ------------------------------------------------------ the query methods
\* getChangeHistory, getChangePreview and validateChange are synchronous and
\* only read.  They are asked about a FileWriter that holds one pending
\* change, staged by createFile, modifyFile, deleteFile or createChange, and
\* a history of Applied createFile changes.
AllEditTypes == {"create", "replace", "insert", "modify", "delete"}

Edge == "<1000000 characters>"
Over == "<1000001 characters>"

QueryPaths == {"/t/a.ts", "", "  "}
QueryOriginals == {"", "O", "OO", "OOO"}
QueryNews == {"", "X", Edge, Over}
QueryLimits == 0 .. (QueryHist + 1)
QueryIds == 0 .. (QueryHist + 1)

\* String.prototype.length
ContentLength(content) ==
    CASE content = Edge -> 1000000
      [] content = Over -> 1000001
      [] OTHER -> Len(content)

\* What the staging methods can produce: validateEditRequest lets an Insert
\* or a Replace through only with a file path and new content.
Stageable(type, path, new) ==
    type \in {"insert", "replace"} => (path # "" /\ new # "")

InitQuery ==
    /\ \E type \in AllEditTypes, path \in QueryPaths, orig \in QueryOriginals,
          new \in QueryNews, h \in 0 .. QueryHist :
          /\ Stageable(type, path, new)
          /\ changes = [c \in 1 .. (h + 1) |->
                          IF c <= h
                          THEN [NewChange(c, "/t/a.ts", "", "X", "create")
                                    EXCEPT !.status = "applied"]
                          ELSE NewChange(c, path, orig, new, type)]
          /\ changeHistory = [k \in 1 .. h |-> k]
          /\ pendingChanges = <<h + 1>>
    /\ fs = [p \in Paths |-> IF p = "/t/a.ts" THEN "X" ELSE NoFile]
    /\ now = QueryHist + 1
    /\ tasks = [s \in Slots |-> IdleTask]
    /\ limit = 1
    /\ last = NoCall
    /\ AIConstructed(AIOption("openai", "k1", ""))

\* `return this.changeHistory.slice(-limit)`
getChangeHistoryResult(lim) == Slice(changeHistory, 0 - lim)

getChangeHistory(lim) ==
    /\ CanStart
    /\ last' = Observe([NoCall EXCEPT !.op = "getChangeHistory", !.ret = "records",
                                      !.n = lim,
                                      !.snapshot = getChangeHistoryResult(lim)])
    /\ UNCHANGED <<changes, pendingChanges, changeHistory, fs, now, tasks, limit>>
    /\ UNCHANGED aiVars

\* The isDestructive field of getChangePreview.
getChangePreviewIsDestructive(ch) ==
    \/ ch.changeType = "delete"
    \/ /\ ch.changeType = "modify"
       /\ ContentLength(ch.originalContent) > ContentLength(ch.newContent) * 2

getChangePreview(changeId) ==
    /\ CanStart
    /\ LET index == FindIndex(pendingChanges, changeId)
           call == [NoCall EXCEPT !.op = "getChangePreview"]
       IN  IF index = 0
           THEN last' = Observe([call EXCEPT !.ret = "undefined"])
           ELSE LET ch == changes[pendingChanges[index]]
                IN  last' = Observe([call EXCEPT
                                !.ret = "preview",
                                !.change = pendingChanges[index],
                                !.isDestructive = getChangePreviewIsDestructive(ch),
                                !.canUndo = (ch.changeType # "create")])
    /\ UNCHANGED <<changes, pendingChanges, changeHistory, fs, now, tasks, limit>>
    /\ UNCHANGED aiVars

\* String.prototype.trim, on the paths asked about.
Trim(path) == IF path = "  " THEN "" ELSE path

\* A size check that also warns at exactly 1000000 characters.
IsLargeContent_ge(content) == ContentLength(content) >= 1000000

\* `change.newContent.length > 1000000`
IsLargeContent(content) == ContentLength(content) > 1000000

\* `try { vscode.workspace.fs.stat(uri) } catch { errors.push(...) }`: the
\* promise stat returns is not awaited, so a missing file rejects it outside
\* the try and the catch is not taken.
StatCatchTaken(ch) == FALSE

validateFileChange(ch) ==
    LET errors ==
            (IF ch.filePath = "" \/ Trim(ch.filePath) = ""
             THEN {"File path is empty"} ELSE {})
            \cup
            (IF ch.changeType = "modify" /\ StatCatchTaken(ch)
             THEN {"File does not exist and cannot be modified"} ELSE {})
        warnings ==
            (IF ch.changeType = "delete"
             THEN {"This operation will permanently delete the file"} ELSE {})
            \cup
            (IF IsLargeContent(ch.newContent)
             THEN {"This is a very large file modification"} ELSE {})
    IN  [isValid |-> (errors = {}), errors |-> errors, warnings |-> warnings]

validateChange(changeId) ==
    /\ CanStart
    /\ LET index == FindIndex(pendingChanges, changeId)
           call == [NoCall EXCEPT !.op = "validateChange", !.ret = "result"]
       IN  IF index = 0
           THEN last' = Observe([call EXCEPT !.isValid = FALSE,
                                             !.errors = {"Change not found"},
                                             !.warnings = {}])
           ELSE LET v == validateFileChange(changes[pendingChanges[index]])
                IN  last' = Observe([call EXCEPT !.change = pendingChanges[index],
                                                 !.isValid = v.isValid,
                                                 !.errors = v.errors,
                                                 !.warnings = v.warnings])
    /\ UNCHANGED <<changes, pendingChanges, changeHistory, fs, now, tasks, limit>>
    /\ UNCHANGED aiVars

NextQuery ==
    \/ \E lim \in QueryLimits \cup {DefaultLimit} : getChangeHistory(lim)
    \/ \E id \in QueryIds : getChangePreview(id)
    \/ \E id \in QueryIds : validateChange(id)

SpecQuery == InitQuery /\ [][NextQuery]_vars

\* --------------------------------------------- applyAIGeneratedCode
\* applyAIGeneratedCode validates a FileEditRequest, builds its preview, asks
\* the user, records a change, edits the file through a WorkspaceEdit and
\* then hands the recorded change to applyChange.  File contents are
\* strings; the requests carry no replaceRange and no insertionPoint.
EditPath == "/t/a.ts"

EditFiles == {NoFile, "", "O", "OOO"}

EditRequests ==
    [editType : AllEditTypes, filePath : {EditPath, ""}, newContent : {"X", ""},
     originalContent : {"", "OOO"}, description : {"edit"}]

\* dryRun, askConfirmation, autoConfirmNonDestructive and trackChanges of the
\* FileEditOptions.  showPreview only opens a diff editor and
\* preserveFormatting chooses between two expressions that are both
\* request.newContent.
EditOptions ==
    [dryRun : BOOLEAN, askConfirmation : BOOLEAN,
     autoConfirmNonDestructive : BOOLEAN, trackChanges : BOOLEAN]

\* The errors of validateEditRequest.
validateEditRequest(request) ==
    (IF request.filePath = "" THEN {"File path is required"} ELSE {})
    \cup (IF request.newContent = "" /\ request.editType # "delete"
          THEN {"New content is required for non-delete operations"} ELSE {})
    \cup (IF request.description = "" THEN {"Description is required"} ELSE {})
    \cup (IF request.editType = "replace" /\ request.originalContent = ""
          THEN {"Replace operations require either a range or original content"}
          ELSE {})

\* originalContent.endsWith('\n')
EndsWithNewline(t) == Len(t) > 0 /\ SubSeq(t, Len(t), Len(t)) = "\n"

\* isDestructiveChange: every Delete, and a Modify or Replace that leaves
\* less than half of the original length.
isDestructiveChange(editType, originalContent, newContent) ==
    \/ editType = "delete"
    \/ /\ editType \in {"modify", "replace"}
       /\ ContentLength(originalContent) > 0
       /\ 2 * ContentLength(newContent) < ContentLength(originalContent)

\* generateEditPreview: the original and the new content the preview shows
\* and its isDestructive flag.  readOk is whether openTextDocument succeeds.
generateEditPreview(f, request, readOk) ==
    LET read == IF readOk THEN f[request.filePath] ELSE ""
        originalContent ==
            CASE request.editType = "create" -> ""
              [] request.editType \in {"replace", "modify", "delete"} ->
                    IF request.originalContent # "" THEN request.originalContent
                    ELSE read
              [] request.editType = "insert" -> read
        newContent ==
            IF request.editType = "insert" /\ readOk
            THEN originalContent
                 \o (IF EndsWithNewline(originalContent) THEN "" ELSE "\n")
                 \o request.newContent
            ELSE request.newContent
    IN  [originalContent |-> originalContent, newContent |-> newContent,
         isDestructive |->
            isDestructiveChange(request.editType, originalContent, newContent)]

\* An auto-confirmation that does not look at the preview.
shouldAutoConfirm_any(autoConfirmNonDestructive, isDestructive) ==
    autoConfirmNonDestructive

\* autoConfirmNonDestructive && !preview.isDestructive
shouldAutoConfirm(autoConfirmNonDestructive, isDestructive) ==
    autoConfirmNonDestructive /\ ~isDestructive

\* What showWarningMessage resolves to in the end: a button, or undefined
\* when the dialog is dismissed.  'Preview Again' shows the preview and asks
\* again, so the answer that counts is the last one.
ConfirmChoices == {"Apply", "Cancel", Undefined}

\* return result === 'Apply'
confirmEdit(choice) == choice = "Apply"

\* createChange: the pending record of the request.  readOk is whether its
\* own openTextDocument succeeds; request.originalContent || originalContent.
createChange(f, request, readOk, id) ==
    LET read == IF request.editType # "create" /\ readOk
                THEN f[request.filePath] ELSE ""
    IN  NewChange(id, request.filePath,
                  IF request.originalContent # "" THEN request.originalContent
                  ELSE read,
                  request.newContent, request.editType)

\* applyEdit: the file the WorkspaceEdit leaves when workspace.applyEdit
\* returns true.  Create inserts into the new file, Replace and Modify
\* replace the whole text, Insert puts the new content at Position(0, 0) and
\* Delete removes the file.
applyEdit(f, request) ==
    LET path == request.filePath
    IN  CASE request.editType = "create" -> [f EXCEPT ![path] = request.newContent]
          [] request.editType \in {"replace", "modify"} ->
                [f EXCEPT ![path] = request.newContent]
          [] request.editType = "insert" ->
                [f EXCEPT ![path] = request.newContent \o f[path]]
          [] request.editType = "delete" -> [f EXCEPT ![path] = NoFile]

\* Whether applyEdit can succeed: createFile has ignoreIfExists false,
\* deleteFile has ignoreIfNotExists false, openTextDocument needs the file
\* and a text edit needs a document.  Anything may still fail.
EditOutcomes(f, request) ==
    IF request.editType = "create"
    THEN (IF f[request.filePath] = NoFile THEN BOOLEAN ELSE {FALSE})
    ELSE (IF f[request.filePath] = NoFile THEN {FALSE} ELSE BOOLEAN)

\* String.prototype.split('\n'): the lines of a text, at least one.
FirstNewline(t) ==
    IF \E i \in 1 .. Len(t) : SubSeq(t, i, i) = "\n"
    THEN CHOOSE i \in 1 .. Len(t) :
            /\ SubSeq(t, i, i) = "\n"
            /\ \A j \in 1 .. (i - 1) : SubSeq(t, j, j) # "\n"
    ELSE 0

RECURSIVE SplitLines(_)
SplitLines(t) ==
    IF FirstNewline(t) = 0 THEN <<t>>
    ELSE <<SubSeq(t, 1, FirstNewline(t) - 1)>>
         \o SplitLines(SubSeq(t, FirstNewline(t) + 1, Len(t)))

\* Array.prototype.join('\n')
RECURSIVE JoinLines(_)
JoinLines(lines) ==
    IF Len(lines) = 1 THEN lines[1]
    ELSE lines[1] \o "\n" \o JoinLines(Tail(lines))

\* lines[i].trim() === ''
IsBlankLine(line) ==
    \A i \in 1 .. Len(line) : SubSeq(line, i, i) \in {" ", "\t", "\r"}

\* The insertLine of executeChange, counted from 0: the first blank line,
\* 0 when there is none.
InsertLine(lines) ==
    IF \E i \in 1 .. Len(lines) : IsBlankLine(lines[i])
    THEN (CHOOSE i \in 1 .. Len(lines) :
            /\ IsBlankLine(lines[i])
            /\ \A j \in 1 .. (i - 1) : ~IsBlankLine(lines[j])) - 1
    ELSE 0

\* lines.splice(insertLine, 0, newContent); lines.join('\n')
SpliceLine(content, newContent) ==
    LET lines == SplitLines(content)
        k == InsertLine(lines)
    IN  JoinLines(SubSeq(lines, 1, k) \o <<newContent>>
                  \o SubSeq(lines, k + 1, Len(lines)))

\* The Insert case of executeChange: it reads the document, splices the new
\* content in as a line and writes the text back.  When the read or that
\* write throws, the inner catch writes the new content alone; when this
\* write throws too, executeChange returns false.
executeChangeInsert(f, c, readOk, ok, retryOk) ==
    LET ch == changes[c]
    IN  IF readOk /\ ok
        THEN [fs |-> writeFileContent(f, ch.filePath,
                        SpliceLine(f[ch.filePath], ch.newContent), TRUE),
              ret |-> TRUE]
        ELSE [fs |-> writeFileContent(f, ch.filePath, ch.newContent, retryOk),
              ret |-> retryOk]

\* The executeChange of any change, with the outcomes of its file operations.
executeChangeOf(f, c, readOk, ok, retryOk) ==
    IF changes[c].changeType = "insert"
    THEN executeChangeInsert(f, c, readOk, ok, retryOk)
    ELSE executeChange(f, c, ok)

\* The outcomes that matter to the change: an Insert has a read and two
\* writes, a Delete fails when there is no file, the others have one write.
ExecuteOutcomesOf(f, c) ==
    IF changes[c].changeType = "insert"
    THEN {o \in [readOk : ReadOutcomes(f, changes[c].filePath),
                 ok : BOOLEAN, retryOk : BOOLEAN] :
            (o.readOk /\ o.ok) => o.retryOk}
    ELSE {[readOk |-> TRUE, ok |-> ok, retryOk |-> TRUE] :
            ok \in ExecuteOutcomes(f, c)}

\* Longest file an edit is still requested for, and the applyAIGeneratedCode
\* calls of one run.
MaxFile == 3
MaxEdits == 1

EditCalls == IF last.op = "applyAIGeneratedCode" THEN 1 ELSE 0

EditRoom(request) ==
    request.filePath \in Paths =>
        \/ fs[request.filePath] = NoFile
        \/ ContentLength(fs[request.filePath]) <= MaxFile

\* applyAIGeneratedCode up to its return or, for a tracked edit that was
\* applied, up to the awaited applyChange(changeId, false).
applyAIGeneratedCode(request, options, r) ==
    /\ CanStart
    /\ Len(changes) + Staging < MaxChanges
    /\ EditCalls < MaxEdits
    /\ EditRoom(request)
    /\ LET call == [NoCall EXCEPT !.op = "applyAIGeneratedCode",
                                  !.dryRun = options.dryRun,
                                  !.request = request, !.options = options]
           errors == validateEditRequest(request)
       IN  IF errors # {}
           THEN /\ last' = Observe([call EXCEPT !.ret = "failure",
                                                !.msg = <<"Validation failed: ">>,
                                                !.errors = errors])
                /\ UNCHANGED <<changes, pendingChanges, fs, tasks>>
           ELSE \E previewRead \in ReadOutcomes(fs, request.filePath),
                   choice \in ConfirmChoices,
                   changeRead \in ReadOutcomes(fs, request.filePath),
                   editOk \in EditOutcomes(fs, request) :
                LET preview == generateEditPreview(fs, request, previewRead)
                    asked == /\ options.askConfirmation
                             /\ ~shouldAutoConfirm(options.autoConfirmNonDestructive,
                                                   preview.isDestructive)
                    c == Len(changes) + 1
                    id == generateChangeId(r)
                    tracked == options.trackChanges
                    seen == [call EXCEPT
                                !.isDestructive = preview.isDestructive,
                                !.choice = IF asked THEN choice ELSE "none",
                                !.before = fs[request.filePath]]
                    made == [seen EXCEPT !.change = IF tracked THEN c ELSE 0]
                    changes2 == IF tracked
                                THEN Append(changes,
                                            createChange(fs, request, changeRead, id))
                                ELSE changes
                    pending2 == IF tracked THEN Append(pendingChanges, c)
                                ELSE pendingChanges
                    found == IF FindIndex(pendingChanges, id) # 0
                             THEN pendingChanges[FindIndex(pendingChanges, id)]
                             ELSE c
                IN  IF asked /\ ~confirmEdit(choice)
                    THEN /\ last' = Observe([seen EXCEPT
                                    !.ret = "failure",
                                    !.msg = <<"User cancelled the operation">>])
                         /\ UNCHANGED <<changes, pendingChanges, fs, tasks>>
                    ELSE IF options.dryRun
                    THEN /\ changes' = changes2
                         /\ pendingChanges' = pending2
                         /\ last' = Observe([made EXCEPT !.ret = "success"])
                         /\ UNCHANGED <<fs, tasks>>
                    ELSE IF ~editOk
                    THEN /\ changes' = changes2
                         /\ pendingChanges' = pending2
                         /\ last' = Observe([made EXCEPT
                                    !.ret = "failure",
                                    !.msg = <<"Failed to apply edit: ">>])
                         /\ UNCHANGED <<fs, tasks>>
                    ELSE LET edited == applyEdit(fs, request)
                             done == [made EXCEPT !.edited = edited[request.filePath]]
                         IN  /\ changes' = changes2
                             /\ pendingChanges' = pending2
                             /\ fs' = edited
                             /\ IF tracked
                                THEN /\ tasks' = [tasks EXCEPT ![FreeSlot] =
                                            [IdleTask EXCEPT
                                                !.kind = "applyAIGeneratedCode",
                                                !.change = found,
                                                !.call = done]]
                                     /\ last' = Observe([done EXCEPT !.ret = "suspended"])
                                ELSE /\ tasks' = tasks
                                     /\ last' = Observe([done EXCEPT !.ret = "success"])
    /\ UNCHANGED <<changeHistory, now, limit>>
    /\ UNCHANGED aiVars

\* The rest of applyAIGeneratedCode: applyChange runs executeChange on the
\* change it finds under the id, sets its status and moves it to the
\* history; its result is not looked at and the call reports success.
applyAIGeneratedCodeComplete(s) ==
    /\ tasks[s].kind = "applyAIGeneratedCode"
    /\ \E o \in ExecuteOutcomesOf(fs, tasks[s].change) :
         LET c == tasks[s].change
             eff == ApplyEffectOf(c, executeChangeOf(fs, c, o.readOk, o.ok, o.retryOk))
         IN  /\ fs' = eff.fs
             /\ changes' = eff.changes
             /\ pendingChanges' = eff.pendingChanges
             /\ changeHistory' = eff.changeHistory
             /\ last' = Observe([tasks[s].call EXCEPT
                                    !.ret = "success",
                                    !.io = IF eff.ret THEN "ok" ELSE "fail"])
    /\ tasks' = [tasks EXCEPT ![s] = IdleTask]
    /\ UNCHANGED <<now, limit>>
    /\ UNCHANGED aiVars

\* A FileWriter before the call: nothing staged, or one change staged by
\* createFile('/t/b.ts', 'X') at time 0, and the clock at or past that time.
InitEdit ==
    /\ \E earlier \in BOOLEAN :
          /\ changes = IF earlier
                       THEN <<NewChange(0, "/t/b.ts", "", "X", "create")>>
                       ELSE <<>>
          /\ pendingChanges = IF earlier THEN <<1>> ELSE <<>>
    /\ changeHistory = <<>>
    /\ \E content \in EditFiles :
          fs = [p \in Paths |-> IF p = EditPath THEN content ELSE NoFile]
    /\ now \in 0 .. MaxClock
    /\ tasks = [s \in Slots |-> IdleTask]
    /\ limit = 1
    /\ last = NoCall
    /\ AIConstructed(AIOption("openai", "k1", ""))

NextEdit ==
    \/ \E request \in EditRequests, options \in EditOptions,
          r \in 0 .. (RandRange - 1) : applyAIGeneratedCode(request, options, r)
    \/ \E s \in Slots : applyAIGeneratedCodeComplete(s)

\* One FileWriter, one call at a time, on a file that is missing, empty,
\* short or long.
SpecEdit == InitEdit /\ [][NextEdit]_vars

\* ------------------------------------------------ AIService: responses
\* A text is a sequence of characters.  The fence marker, three backticks,
\* is one element: texts with one or two backticks in a row are outside the
\* model.
Fence == "<fence>"
WordChars == {"a", "n", "o", "k", "O", "K"}      \* [\w]
SpaceChars == {" ", "\n"}                        \* what trim() removes
Unset == <<"<undefined>">>                       \* explanation: undefined

AIRequestTypes == {"write", "modify", "explain", "generate"}

ParseAlphabet == {Fence, "a", "+", "-", "\n"}
ParseTexts == UNION {[1 .. m -> ParseAlphabet] : m \in 0 .. MaxText}

\* A trim that removes the white space at the start only (trimStart).
TrimText_start(t) ==
    LET keep == {i \in 1 .. Len(t) : t[i] \notin SpaceChars}
    IN  IF keep = {} THEN <<>>
        ELSE SubSeq(t, CHOOSE i \in keep : \A j \in keep : i <= j, Len(t))

\* String.prototype.trim
TrimText(t) ==
    LET keep == {i \in 1 .. Len(t) : t[i] \notin SpaceChars}
    IN  IF keep = {} THEN <<>>
        ELSE SubSeq(t, CHOOSE i \in keep : \A j \in keep : i <= j,
                       CHOOSE i \in keep : \A j \in keep : j <= i)

\* The position of the first fence marker at or after i, 0 for none.
FirstFence(t, i) ==
    IF \E j \in i .. Len(t) : t[j] = Fence
    THEN CHOOSE j \in i .. Len(t) :
            t[j] = Fence /\ \A k \in i .. (j - 1) : t[k] # Fence
    ELSE 0

\* The regex  fence [\w]* \n? ([\s\S]*?) \n? fence  from the opening fence
\* at o: where the group starts, after the greedy [\w]* and the optional
\* newline.
GroupStart(t, o) ==
    LET p == CHOOSE q \in (o + 1) .. (Len(t) + 1) :
                /\ \A j \in (o + 1) .. (q - 1) : t[j] \in WordChars
                /\ q = Len(t) + 1 \/ t[q] \notin WordChars
    IN  IF p <= Len(t) /\ t[p] = "\n" THEN p + 1 ELSE p

\* The lazy group ends before the first closing fence at q, or before the
\* newline in front of it.
GroupOf(t, p, q) ==
    IF q - 1 >= p /\ t[q - 1] = "\n" THEN SubSeq(t, p, q - 2) ELSE SubSeq(t, p, q - 1)

\* The successive matches of the global regex from position i: where each
\* starts and ends, and its group.
RECURSIVE Matches(_, _)
Matches(t, i) ==
    LET o == FirstFence(t, i)
    IN  IF o = 0 THEN <<>>
        ELSE LET p == GroupStart(t, o)
                 q == FirstFence(t, p)
             IN  IF q = 0 THEN <<>>
                 ELSE <<[start |-> o, end |-> q, group |-> GroupOf(t, p, q)]>>
                        \o Matches(t, q + 1)

\* codeBlocks.push(match[1].trim())
CodeBlocks(t) ==
    LET m == Matches(t, 1) IN [k \in 1 .. Len(m) |-> TrimText(m[k].group)]

\* A reducer that lets the later of two blocks of equal length win.
PickBlock_later(prev, current) ==
    IF Len(current) >= Len(prev) THEN current ELSE prev

\* (prev, current) => current.length > prev.length ? current : prev
PickBlock(prev, current) ==
    IF Len(current) > Len(prev) THEN current ELSE prev

\* codeBlocks.reduce(...) without an initial value, from element k on.
RECURSIVE Reduce(_, _, _)
Reduce(blocks, k, prev) ==
    IF k > Len(blocks) THEN prev
    ELSE Reduce(blocks, k + 1, PickBlock(prev, blocks[k]))

\* content.replace(regex, empty string): the characters outside every match.
RECURSIVE RemoveMatches(_, _, _)
RemoveMatches(t, m, i) ==
    IF i > Len(t) THEN <<>>
    ELSE IF \E k \in 1 .. Len(m) : m[k].start <= i /\ i <= m[k].end
    THEN RemoveMatches(t, m, i + 1)
    ELSE <<t[i]>> \o RemoveMatches(t, m, i + 1)

\* detectCodeContent: more than 30% of the lines match a code indicator.  Of
\* the eleven indicators only /;$/m can match a text of the model: the others
\* need letters, braces or slashes that no text has.
detectCodeContent(t) ==
    LET lines == Cardinality({i \in 1 .. Len(t) : t[i] = "\n"}) + 1
        codeLines == Cardinality({i \in 1 .. Len(t) :
                        /\ t[i] = ";"
                        /\ i = Len(t) \/ t[i + 1] = "\n"})
    IN  10 * codeLines > 3 * lines

\* content.length: a fence is three characters, every other token one.
CharLength(t) == Len(t) + 2 * Cardinality({i \in 1 .. Len(t) : t[i] = Fence})

\* Math.min(Math.max(confidence, 0.1), 1.0), in tenths.
Clamp_none(confidence) == confidence

Clamp(confidence) ==
    IF confidence < 1 THEN 1 ELSE IF confidence > 10 THEN 10 ELSE confidence

\* calculateConfidence, in tenths (0.7 is 7).
calculateConfidence(content, type, metadata) ==
    LET c0 == 7
        c1 == IF CharLength(content) > LongContent THEN c0 + 1 ELSE c0
        c2 == IF CharLength(content) > VeryLongContent THEN c1 + 1 ELSE c1
        c3 == IF type = "explain" /\ CharLength(content) > LongExplanation
              THEN c2 + 1 ELSE c2
        c4 == IF type # "explain" /\ (\E i \in 1 .. Len(content) : content[i] = Fence)
              THEN c3 + 1 ELSE c3
        c5 == IF metadata.present
                 /\ (metadata.finishReason = "stop" \/ metadata.stopReason = "end_turn")
              THEN c4 + 1 ELSE c4
        c6 == IF metadata.present
                 /\ (metadata.finishReason = "length" \/ metadata.stopReason = "max_tokens")
              THEN c5 - 2 ELSE c5
    IN  Clamp(c6)

\* parseAIResponse: the code, the explanation and the confidence of a
\* response text.
parseAIResponse(content, type, metadata) ==
    LET confidence == calculateConfidence(content, type, metadata)
    IN  IF type = "explain"
        THEN [code |-> <<>>, explanation |-> TrimText(content), confidence |-> confidence]
        ELSE LET codeBlocks == CodeBlocks(content)
                 explanationText == TrimText(RemoveMatches(content, Matches(content, 1), 1))
             IN  IF Len(codeBlocks) > 0
                 THEN [code |-> Reduce(codeBlocks, 2, codeBlocks[1]),
                       explanation |-> IF explanationText # <<>>
                                       THEN explanationText ELSE Unset,
                       confidence |-> confidence]
                 ELSE IF detectCodeContent(content)
                 THEN [code |-> TrimText(content), explanation |-> Unset,
                       confidence |-> confidence]
                 ELSE [code |-> <<>>, explanation |-> TrimText(content),
                       confidence |-> confidence]

\* One call of parseAIResponse, as a provider handler makes it with the text
\* of the response it received.
parseResponse ==
    /\ aiLast.op = "response"
    /\ aiLast' = [aiLast EXCEPT
                    !.op = "parseAIResponse",
                    !.code = parseAIResponse(aiLast.content, aiLast.type,
                                             aiLast.metadata).code,
                    !.explanation = parseAIResponse(aiLast.content, aiLast.type,
                                                    aiLast.metadata).explanation,
                    !.confidence = parseAIResponse(aiLast.content, aiLast.type,
                                                   aiLast.metadata).confidence]
    /\ UNCHANGED <<currentProvider, config, httpClient, requests>>
    /\ UNCHANGED fwVars

\* A handler holds the text of a response to a request of some type.
InitParse ==
    /\ FileWriterConstructed
    /\ limit = 1
    /\ currentProvider = "openai"
    /\ config = ConfigOf(AIOption("openai", "k1", ""))
    /\ httpClient = createHttpClient("openai", config)
    /\ requests = [s \in RequestSlots |-> IdleRequest]
    /\ \E content \in ParseTexts, type \in AIRequestTypes :
          aiLast = [NoAICall EXCEPT !.op = "response", !.type = type,
                                    !.content = content]

NextParse == parseResponse

SpecParse == InitParse /\ [][NextParse]_vars

\* The texts calculateConfidence tells apart: a length at and just above
\* each threshold, with or without a fence at the start.
ConfidenceLengths ==
    {0, 3} \cup UNION {{n, n + 1} : n \in {LongContent, LongExplanation, VeryLongContent}}

ConfidenceText(n, fenced) ==
    IF fenced THEN <<Fence>> \o [i \in 1 .. (n - 3) |-> "a"] ELSE [i \in 1 .. n |-> "a"]

FinishReasons == {Undefined, "stop", "length", "content_filter"}     \* OpenAI finish_reason
StopReasons == {Undefined, "end_turn", "max_tokens", "stop_sequence"} \* Claude stop_reason

Metadatas ==
    {NoMetadata} \cup [present : {TRUE}, finishReason : FinishReasons, stopReason : StopReasons]

\* A handler holds a response of one of those lengths and its metadata.
InitConfidence ==
    /\ FileWriterConstructed
    /\ limit = 1
    /\ currentProvider = "openai"
    /\ config = ConfigOf(AIOption("openai", "k1", ""))
    /\ httpClient = createHttpClient("openai", config)
    /\ requests = [s \in RequestSlots |-> IdleRequest]
    /\ \E n \in ConfidenceLengths, fenced \in BOOLEAN, type \in AIRequestTypes,
          metadata \in Metadatas :
          /\ fenced => n >= 3
          /\ aiLast = [NoAICall EXCEPT !.op = "response", !.type = type,
                                       !.content = ConfidenceText(n, fenced),
                                       !.metadata = metadata]

NextConfidence == parseResponse

SpecConfidence == InitConfidence /\ [][NextConfidence]_vars

\* ------------------------------------------------ AIService: the router
\* updateOptions ends with this.httpClient = this.createHttpClient().
updateOptionsClient_keep(old, provider, cfg) == old

updateOptionsClient(old, provider, cfg) == createHttpClient(provider, cfg)

\* updateOptions(options): synchronous, so it can run while a request waits
\* for its response.
updateOptions(options) ==
    /\ currentProvider' = options.provider
    /\ config' = ConfigOf(options)
    /\ httpClient' = updateOptionsClient(httpClient, options.provider, ConfigOf(options))
    /\ aiLast' = [NoAICall EXCEPT !.op = "updateOptions",
                                  !.provider = currentProvider,
                                  !.headers = httpClient.headers]
    /\ UNCHANGED requests
    /\ UNCHANGED fwVars

\* The url each handler posts to; the base url of a local backend defaults
\* when config.baseUrl is falsy.
Endpoint_default(provider, cfg) ==
    CASE provider = "openai" -> <<"https://api.openai.com", "/v1/chat/completions">>
      [] provider = "claude" -> <<"https://api.anthropic.com", "/v1/messages">>
      [] provider = "ollama" -> <<"http://localhost:11434", "/api/generate">>
      [] provider = "lmstudio" -> <<"http://localhost:1234", "/v1/chat/completions">>
      [] provider = "vllm" -> <<"http://localhost:8000", "/v1/completions">>

Endpoint(provider, cfg) ==
    CASE provider = "openai" -> <<"https://api.openai.com", "/v1/chat/completions">>
      [] provider = "claude" -> <<"https://api.anthropic.com", "/v1/messages">>
      [] provider = "ollama" ->
            <<IF cfg.baseUrl # "" THEN cfg.baseUrl ELSE "http://localhost:11434",
              "/api/generate">>
      [] provider = "lmstudio" ->
            <<IF cfg.baseUrl # "" THEN cfg.baseUrl ELSE "http://localhost:1234",
              "/v1/chat/completions">>
      [] provider = "vllm" ->
            <<IF cfg.baseUrl # "" THEN cfg.baseUrl ELSE "http://localhost:8000",
              "/v1/completions">>

\* The message of the Error of the default case of the switch.
UnsupportedMessage_bare(provider) == <<"Unsupported AI provider">>

UnsupportedMessage(provider) == <<"Unsupported AI provider: ", provider>>

\* The Error the catch of sendRequest throws.
RouterError_bare(errorMessage) == errorMessage

RouterError(errorMessage) == <<"AI request failed: ">> \o errorMessage

\* The arguments of logger.logAIActivity (the duration left out).
ActivityOf_success(provider, type, success, errorMessage) ==
    [provider |-> provider, type |-> type, success |-> TRUE, error |-> errorMessage]

ActivityOf(provider, type, success, errorMessage) ==
    [provider |-> provider, type |-> type, success |-> success, error |-> errorMessage]

\* The synchronous part of sendRequest, up to the await of httpClient.post
\* in the handler the switch selects, or to the rejection of the default case.
SendStart(s, type, caller) ==
    /\ requests[s].kind = "idle"
    /\ IF currentProvider \in AIProvider
       THEN /\ requests' = [requests EXCEPT ![s] =
                    [kind |-> "posted", type |-> type, caller |-> caller,
                     provider |-> currentProvider,
                     url |-> Endpoint(currentProvider, config),
                     headers |-> httpClient.headers,
                     posts |-> 1]]
            /\ aiLast' = [NoAICall EXCEPT
                    !.op = "sendRequest", !.ret = "suspended",
                    !.caller = caller, !.type = type,
                    !.provider = currentProvider,
                    !.url = Endpoint(currentProvider, config),
                    !.headers = httpClient.headers,
                    !.posts = 1]
       ELSE /\ aiLast' = [NoAICall EXCEPT
                    !.op = "sendRequest",
                    !.ret = IF caller = "testConnection" THEN "false" ELSE "rejected",
                    !.caller = caller, !.type = type,
                    !.provider = currentProvider,
                    !.outcome = "rejected",
                    !.msg = RouterError(UnsupportedMessage(currentProvider)),
                    !.activity = <<ActivityOf(currentProvider, type, FALSE,
                                              UnsupportedMessage(currentProvider))>>]
            /\ UNCHANGED requests
    /\ UNCHANGED <<currentProvider, config, httpClient>>
    /\ UNCHANGED fwVars

sendRequest(s, type) == SendStart(s, type, "sendRequest")

\* testConnection: an explain request through sendRequest.
testConnection(s) == SendStart(s, "explain", "testConnection")

\* The ways httpClient.post can fail: an HTTP status outside 2xx, a refused
\* connection, a timeout.  All are axios errors.
AxiosStatus(status) ==
    [axios |-> TRUE, status |-> status, code |-> "ERR_BAD_REQUEST",
     message |-> <<"Request failed with status code ", status>>]

TransportErrors ==
    {AxiosStatus(st) : st \in {"401", "402", "404", "429", "500"}}
    \cup {[axios |-> TRUE, status |-> "", code |-> "ECONNREFUSED",
           message |-> <<"connect ECONNREFUSED">>],
          [axios |-> TRUE, status |-> "", code |-> "ECONNABORTED",
           message |-> <<"timeout of 30000ms exceeded">>]}

\* The TypeError of reading choices[0] or content[0] of a body without them.
MalformedBody ==
    [axios |-> FALSE, status |-> "", code |-> "",
     message |-> <<"Cannot read properties of undefined">>]

\* The texts a backend answers with.
ResponseTexts ==
    {<<>>, <<"O", "K">>, <<"o", "k">>, <<"n", "o">>, <<"k", "o">>,
     <<"\n", "O", "k", " ">>, <<"o", "\n", "k">>}

\* The message of the error a handler's catch throws: the mapped message, or
\* the message of the error it caught.
HandlerError(provider, error, cfg) ==
    CASE provider = "openai" ->
            IF error.axios /\ error.status = "401"
            THEN <<"OpenAI API key is invalid or expired">>
            ELSE IF error.axios /\ error.status = "429"
            THEN <<"OpenAI API rate limit exceeded">>
            ELSE IF error.axios /\ error.status = "402"
            THEN <<"OpenAI API quota exceeded">>
            ELSE error.message
      [] provider = "claude" ->
            IF error.axios /\ error.status = "401"
            THEN <<"Claude API key is invalid or expired">>
            ELSE IF error.axios /\ error.status = "429"
            THEN <<"Claude API rate limit exceeded">>
            ELSE error.message
      [] provider = "ollama" ->
            IF error.axios /\ error.code = "ECONNREFUSED"
            THEN <<"Ollama server is not running. Please start Ollama and try again.">>
            ELSE IF error.axios /\ error.status = "404"
            THEN <<"Ollama model '", cfg.model, "' not found. Please pull the model first.">>
            ELSE error.message
      [] provider = "lmstudio" ->
            IF error.axios /\ error.code = "ECONNREFUSED"
            THEN <<"LM Studio server is not running. Please start LM Studio and load a model.">>
            ELSE error.message
      [] provider = "vllm" ->
            IF error.axios /\ error.code = "ECONNREFUSED"
            THEN <<"vLLM server is not running. Please start the vLLM server.">>
            ELSE error.message

\* String.prototype.toLowerCase on the characters of the model.
LowerChar_same(c) == c

LowerChar(c) ==
    CASE c = "O" -> "o"
      [] c = "K" -> "k"
      [] OTHER -> c

\* responseText.toLowerCase().includes('ok')
IncludesOk(t) ==
    \E i \in 1 .. (Len(t) - 1) : LowerChar(t[i]) = "o" /\ LowerChar(t[i + 1]) = "k"

\* What the post of request s ends with: a response text, a body without
\* the fields the handler reads, or a transport error.
PostOutcomes ==
    [kind : {"text"}, content : ResponseTexts, error : {NoError}]
    \cup {[kind |-> "malformed", content |-> <<>>, error |-> MalformedBody]}
    \cup [kind : {"error"}, content : {<<>>}, error : TransportErrors]

\* The rest of sendRequest after the post of request s settled, and the
\* rest of testConnection when it is the caller.  The handler is the one
\* dispatched at the call; this.currentProvider and this.config are read
\* again now.
sendRequestComplete(s, post) ==
    LET r == requests[s]
        \* response.data.response || '' of the Ollama handler reads no
        \* element of an array, so a body without the field is an empty text.
        failed == \/ post.kind = "error"
                  \/ post.kind = "malformed" /\ r.provider # "ollama"
        errorMessage == HandlerError(r.provider, post.error, config)
        \* finish_reason and stop_reason of the bodies of the model are
        \* the natural stop.
        metadata == [present |-> TRUE,
                     finishReason |-> IF r.provider = "openai" THEN "stop" ELSE Undefined,
                     stopReason |-> IF r.provider = "claude" THEN "end_turn" ELSE Undefined]
        parsed == parseAIResponse(post.content, r.type, metadata)
        responseText == IF parsed.code # <<>> THEN parsed.code
                        ELSE IF parsed.explanation # Unset THEN parsed.explanation
                        ELSE <<>>
    IN  /\ r.kind = "posted"
        /\ requests' = [requests EXCEPT ![s] = IdleRequest]
        /\ aiLast' = [NoAICall EXCEPT
                !.op = "sendRequestComplete",
                !.caller = r.caller, !.type = r.type, !.provider = r.provider,
                !.url = r.url, !.headers = r.headers, !.posts = r.posts,
                !.outcome = IF failed THEN "rejected" ELSE "resolved",
                !.error = IF failed THEN post.error ELSE NoError,
                !.msg = IF failed THEN RouterError(errorMessage) ELSE <<>>,
                !.activity = <<ActivityOf(currentProvider, r.type, ~failed,
                                          IF failed THEN errorMessage ELSE <<>>)>>,
                !.content = IF failed THEN <<>> ELSE post.content,
                !.code = IF failed THEN <<>> ELSE parsed.code,
                !.explanation = IF failed THEN <<>> ELSE parsed.explanation,
                !.metadata = IF failed THEN NoMetadata ELSE metadata,
                !.confidence = IF failed THEN 0 ELSE parsed.confidence,
                !.ret = IF r.caller = "testConnection"
                        THEN IF ~failed /\ IncludesOk(responseText)
                             THEN "true" ELSE "false"
                        ELSE IF failed THEN "rejected" ELSE "resolved"]
        /\ UNCHANGED <<currentProvider, config, httpClient>>
        /\ UNCHANGED fwVars

InitAI ==
    /\ FileWriterConstructed
    /\ limit = 1
    /\ \E options \in AIOptions : AIConstructed(options)

NextAI ==
    \/ \E options \in AIOptions : updateOptions(options)
    \/ \E s \in RequestSlots, type \in AIRequestTypes : sendRequest(s, type)
    \/ \E s \in RequestSlots : testConnection(s)
    \/ \E s \in RequestSlots, post \in PostOutcomes : sendRequestComplete(s, post)

SpecAI == InitAI /\ [][NextAI]_vars

TypeOK ==
    /\ \A c \in 1 .. Len(changes) : changes[c].status \in ChangeStatus
    /\ \A p \in Paths : fs[p] \in FileStates

\* ------------------------------------------------------------ properties
AllChanges == 1 .. Len(changes)

InPending(c) == \E j \in 1 .. Len(pendingChanges) : pendingChanges[j] = c

InHistory(c) == \E j \in 1 .. Len(changeHistory) : changeHistory[j] = c

NewestInHistory(c) ==
    /\ Len(changeHistory) > 0
    /\ changeHistory[Len(changeHistory)] = c

NeverIssued(id) == \A c \in AllChanges : changes[c].id # id

\* An applyChange call (issued directly or by the loop of applyAllChanges)
\* has just returned after its file operation.
ApplyReturned == last.op = "applyChange" /\ last.io # "none"

\* C1: once every call has returned, each change has one of the four statuses
\* and is in the pending collection exactly when its status is Pending.
C1_PendingIffStatusPending ==
    InFlight = 0 =>
        \A c \in AllChanges :
            /\ changes[c].status \in ChangeStatus
            /\ InPending(c) <=> changes[c].status = "pending"

\* C2: when an applyChange call returns after its file operation, the change
\* (now Applied or Failed) is out of the pending collection and is the record
\* appended to the history; after a non-dry-run applyAllChanges the pending
\* collection is empty.
C2_ResolvedMovedToHistory ==
    /\ ApplyReturned =>
          /\ changes[last.change].status \in {"applied", "failed"}
          /\ ~InPending(last.change)
          /\ NewestInHistory(last.change)
    /\ (last.batch = "done" /\ ~last.dryRun) => pendingChanges = <<>>

\* C3: whatever the interleaving of the calls, no change id is in the pending
\* collection and in the history at the same time.
C3_IdNeverInBoth ==
    \A j \in 1 .. Len(pendingChanges), k \in 1 .. Len(changeHistory) :
        changes[pendingChanges[j]].id # changes[changeHistory[k]].id

\* C4: when the file operation of applyChange succeeds, the call returns true,
\* the file holds newContent (Create, Modify) or is gone (Delete), the change
\* is Applied, out of the pending collection and the newest history record.
C4_SuccessfulApply ==
    (ApplyReturned /\ last.io = "ok") =>
        LET ch == changes[last.change]
        IN  /\ last.ret = "true"
            /\ ch.changeType \in {"create", "modify"} => fs[ch.filePath] = ch.newContent
            /\ ch.changeType = "delete" => fs[ch.filePath] = NoFile
            /\ ch.status = "applied"
            /\ ~InPending(last.change)
            /\ NewestInHistory(last.change)

C4_Witness ==
    /\ ApplyReturned /\ last.io = "ok"
    /\ changes[last.change].changeType = "modify"
    /\ Len(changeHistory) = 2

\* C5: when the file operation of applyChange fails, whatever the change type,
\* the call does not throw: it returns false and the change is Failed.
C5_FailedOperationReturnsFalse ==
    (ApplyReturned /\ last.io = "fail") =>
        /\ last.ret = "false"
        /\ changes[last.change].status = "failed"

\* C6: a Failed change stays Failed: no later step performs a file operation
\* for it or makes it Applied.
C6_FailedIsTerminal ==
    [][\A c \in AllChanges :
          changes[c].status = "failed" =>
              /\ changes'[c].status # "applied"
              /\ ~(last'.op = "applyChange" /\ last'.io # "none" /\ last'.change = c)]_vars

\* C7: applyChange with an id no change ever had rejects with a message that
\* holds the id, starts no file operation, and leaves the pending collection,
\* the history, every change and the file system as they were.
C7_UnknownIdRejects ==
    [][\A id \in ChangeIds, dryRun \in BOOLEAN :
          (NeverIssued(id) /\ applyChange(id, dryRun)) =>
              /\ last'.ret = "throw"
              /\ Len(last'.msg) = 2 /\ last'.msg[2] = id
              /\ UNCHANGED <<changes, pendingChanges, changeHistory, fs, tasks>>]_vars

C7_Witness ==
    /\ last.op = "applyChange" /\ last.ret = "throw"
    /\ NeverIssued(last.msg[2])
    /\ Len(pendingChanges) > 0 /\ Len(changeHistory) > 0

\* C8: a dry run changes nothing.  applyChange(id, true) for an id in the
\* pending collection returns true; applyAllChanges(true) reports every
\* pending change as successful and none as failed; neither starts a file
\* operation or changes a change, the pending collection, the history or the
\* file system.
C8_DryRunChangesNothing ==
    [][/\ \A id \in ChangeIds :
            (FindIndex(pendingChanges, id) # 0 /\ applyChange(id, TRUE)) =>
                /\ last'.ret = "true"
                /\ UNCHANGED <<changes, pendingChanges, changeHistory, fs, tasks>>
       /\ applyAllChanges(TRUE) =>
                /\ last'.ret = "result"
                /\ last'.successful = Len(pendingChanges)
                /\ last'.failed = 0
                /\ UNCHANGED <<changes, pendingChanges, changeHistory, fs, tasks>>]_vars

C8_Witness ==
    /\ last.op = "applyAllChanges" /\ last.dryRun /\ last.ret = "result"
    /\ last.successful = 2
    /\ \E c \in AllChanges : changes[c].status = "pending" /\ InPending(c)

\* C9: a non-dry-run applyAllChanges performs the file operation of every
\* change of its snapshot exactly once, and reports successful = the number
\* of operations that succeeded, failed = the number that failed, and
\* successful + failed = the number of changes pending at the call.
C9_BatchTally ==
    (last.batch = "done" /\ ~last.dryRun) =>
        /\ Len(last.attempted) = last.n
        /\ \A j \in 1 .. last.n :
              Cardinality({k \in 1 .. Len(last.attempted) :
                              last.attempted[k] = last.snapshot[j]}) = 1
        /\ last.successful = last.opOk
        /\ last.failed = last.n - last.opOk
        /\ last.successful + last.failed = last.n

\* C10: cancelChange(id) for a change with status Pending returns true, makes
\* it Cancelled, takes it out of the pending collection and touches neither
\* the history nor the files; for an id no change has, or whose changes are
\* all resolved, it returns false and changes nothing.
C10_CancelChange ==
    [][\A id \in ChangeIds :
          cancelChange(id) =>
              LET index == FindIndex(pendingChanges, id)
              IN  /\ (index # 0 /\ changes[pendingChanges[index]].status = "pending") =>
                        /\ last'.ret = "true"
                        /\ changes'[pendingChanges[index]].status = "cancelled"
                        /\ \A j \in 1 .. Len(pendingChanges') :
                              pendingChanges'[j] # pendingChanges[index]
                        /\ UNCHANGED <<changeHistory, fs, tasks>>
                  /\ (\A c \in AllChanges : changes[c].id = id => changes[c].status # "pending") =>
                        /\ last'.ret = "false"
                        /\ UNCHANGED <<changes, pendingChanges, changeHistory, fs, tasks>>]_vars

\* An undoChange call has just returned after its file operation.
UndoReturned == last.op = "undoChange" /\ last.io # "none"

\* C11: when undoChange directly follows the applyChange of the same change
\* and its file operation succeeds, the path holds what it held before the
\* apply: no file after the undo of a Create, the same file with the same
\* content after the undo of a Modify or a Delete.
C11_ApplyUndoRoundTrip ==
    (UndoReturned /\ last.io = "ok" /\ last.before # "none") =>
        LET ch == changes[last.change]
        IN  /\ ch.changeType = "create" => fs[ch.filePath] = NoFile
            /\ ch.changeType \in {"modify", "delete"} => fs[ch.filePath] = last.before

\* Some record of the history has the id and the status Applied.
AppliedInHistory(id) ==
    \E k \in 1 .. Len(changeHistory) :
        /\ changes[changeHistory[k]].id = id
        /\ changes[changeHistory[k]].status = "applied"

\* C12: undoChange(id) for an id that no Applied record of the history has (an
\* id no change has, or the id of a change that is pending, cancelled or
\* failed) returns false, starts no file operation, and leaves the file
\* system, the changes and both collections as they were.
C12_UndoRejectsNotApplied ==
    [][\A id \in ChangeIds :
          (~AppliedInHistory(id) /\ undoChange(id)) =>
              /\ last'.ret = "false"
              /\ UNCHANGED <<changes, pendingChanges, changeHistory, fs, tasks>>]_vars

C12_Witness ==
    /\ last.op = "undoChange" /\ last.ret = "false"
    /\ Len(changeHistory) > 0
    /\ \E c \in AllChanges : changes[c].status \in {"pending", "cancelled", "failed"}
    /\ \A id \in IssuableIds : ~NeverIssued(id)

\* C13: when the file operation of an undoChange call for an Applied change
\* succeeds, the call returns true and, for a Modify or a Delete, the file
\* holds the change's original content again.
C13_EveryAppliedChangeUndoable ==
    (UndoReturned /\ last.io = "ok") =>
        LET ch == changes[last.change]
        IN  /\ last.ret = "true"
            /\ ch.changeType \in {"modify", "delete"} =>
                    fs[ch.filePath] = ch.originalContent

\* C14: when the read of the target file fails, modifyFile and deleteFile
\* still return a change: it is new, Pending, has originalContent "" and is
\* the last element of the pending collection.
C14_ReadFailureStillStages ==
    (last.op \in {"modifyFile", "deleteFile"} /\ last.io = "fail") =>
        /\ last.ret = "change"
        /\ last.change = Len(changes)
        /\ changes[last.change].status = "pending"
        /\ changes[last.change].originalContent = ""
        /\ Len(pendingChanges) > 0
        /\ pendingChanges[Len(pendingChanges)] = last.change

C14_Witness ==
    /\ last.op = "deleteFile" /\ last.io = "fail"
    /\ fs[changes[last.change].filePath] = "O"
    /\ Len(pendingChanges) = 2

\* What a staging step leaves: one more change, Pending, at the end of the
\* pending collection; the file system, the history and the changes that
\* existed are as before.
StagedOne(type) ==
    LET c == Len(changes) + 1
    IN  /\ Len(changes') = c
        /\ changes'[c].status = "pending"
        /\ changes'[c].changeType = type
        /\ pendingChanges' = Append(pendingChanges, c)
        /\ \A d \in 1 .. Len(changes) : changes'[d] = changes[d]
        /\ UNCHANGED <<fs, changeHistory>>

\* C15: createFile, modifyFile and deleteFile each append exactly one new
\* Pending change to the end of the pending collection and leave the file
\* system, the history and every existing change unchanged, in the step that
\* starts the read as well as in the step that queues the change; createFile
\* stages originalContent "", deleteFile stages newContent "".
C15_StagingNeverTouchesDisk ==
    [][/\ \A p \in Paths, x \in NewContents, r \in 0 .. (RandRange - 1) :
            createFile(p, x, r) =>
                /\ StagedOne("create")
                /\ changes'[Len(changes')].originalContent = ""
                /\ changes'[Len(changes')].newContent = x
                /\ changes'[Len(changes')].filePath = p
       /\ \A p \in Paths, x \in NewContents :
            modifyFile(p, x) => UNCHANGED <<changes, pendingChanges, changeHistory, fs>>
       /\ \A p \in Paths :
            deleteFile(p) => UNCHANGED <<changes, pendingChanges, changeHistory, fs>>
       /\ \A s \in Slots, r \in 0 .. (RandRange - 1) :
            modifyFileComplete(s, r) =>
                /\ StagedOne("modify")
                /\ changes'[Len(changes')].newContent = tasks[s].content
                /\ changes'[Len(changes')].filePath = tasks[s].path
       /\ \A s \in Slots, r \in 0 .. (RandRange - 1) :
            deleteFileComplete(s, r) =>
                /\ StagedOne("delete")
                /\ changes'[Len(changes')].newContent = ""
                /\ changes'[Len(changes')].filePath = tasks[s].path]_vars

C15_Witness ==
    /\ last.op = "createFile" /\ last.ret = "change"
    /\ Len(changeHistory) = 1 /\ pendingChanges = <<last.change>>
    /\ fs[changes[last.change].filePath] = "O"
    /\ changes[last.change].originalContent = ""

\* C16: no two changes created by the FileWriter have the same id, changes
\* created within the same millisecond included.
C16_UniqueIds ==
    \A c \in AllChanges, d \in AllChanges : c # d => changes[c].id # changes[d].id

\* The other half of C16, which holds: the id of a change never changes.
IdsAreStable ==
    [][\A c \in AllChanges : changes'[c].id = changes[c].id]_vars

\* C17: the history never holds more than 100 records, and a successful
\* apply leaves in it the most recent 100 of the old records followed by the
\* applied change, in the order they were applied.
C17_HistoryBounded ==
    [][/\ Len(changeHistory') <= 100
       /\ (last'.op = "applyChange" /\ last'.io # "none" /\ last'.ret = "true") =>
             LET pushed == Append(changeHistory, last'.change)
                 kept == IF Len(pushed) > 100 THEN 100 ELSE Len(pushed)
             IN  /\ Len(changeHistory') = kept
                 /\ \A k \in 1 .. kept :
                       changeHistory'[k] = pushed[Len(pushed) - kept + k]]_vars

C17_Witness ==
    /\ last.op = "applyChange" /\ last.io # "none" /\ last.ret = "true"
    /\ Len(changeHistory) = 100
    /\ changeHistory[1] = 3
    /\ changeHistory[100] = last.change

\* C18: getChangeHistory(limit) with limit >= 0 returns at most `limit`
\* records: the `limit` newest records of the history (all of them when the
\* history is shorter), in the order of the history.
C18_HistoryLimit ==
    last.op = "getChangeHistory" =>
        LET result == last.snapshot
            want == IF Len(changeHistory) < last.n THEN Len(changeHistory) ELSE last.n
        IN  /\ Len(result) <= last.n
            /\ Len(result) = want
            /\ \A k \in 1 .. want :
                  result[k] = changeHistory[Len(changeHistory) - want + k]

\* What holds of getChangeHistory: the same for every limit >= 1, and the
\* call changes nothing.
HistoryLimitPositive ==
    (last.op = "getChangeHistory" /\ last.n >= 1) =>
        LET result == last.snapshot
            want == IF Len(changeHistory) < last.n THEN Len(changeHistory) ELSE last.n
        IN  /\ Len(result) = want
            /\ \A k \in 1 .. want :
                  result[k] = changeHistory[Len(changeHistory) - want + k]

\* C19: the preview of a pending change is destructive exactly when the
\* change is a Delete, or a Modify or a Replace whose newContent is shorter
\* than half of its originalContent; never for a Create or an Insert.
C19_PreviewIsDestructive ==
    (last.op = "getChangePreview" /\ last.ret = "preview") =>
        LET ch == changes[last.change]
        IN  last.isDestructive <=>
                \/ ch.changeType = "delete"
                \/ /\ ch.changeType \in {"modify", "replace"}
                   /\ 2 * ContentLength(ch.newContent) < ContentLength(ch.originalContent)

\* What holds of the preview: the same with Replace left out.
PreviewIsDestructiveButReplace ==
    (last.op = "getChangePreview" /\ last.ret = "preview"
        /\ changes[last.change].changeType # "replace") =>
        LET ch == changes[last.change]
        IN  last.isDestructive <=>
                \/ ch.changeType = "delete"
                \/ /\ ch.changeType = "modify"
                   /\ 2 * ContentLength(ch.newContent) < ContentLength(ch.originalContent)

\* C20: validateChange(id) changes no change, collection, file or suspended
\* call.  For a pending change isValid is false exactly when errors is not
\* empty, the empty-path error is there exactly when filePath is empty or
\* blank, the deletion warning exactly when the change is a Delete, and the
\* large-modification warning exactly when newContent has more than
\* 1,000,000 characters.  For an id that is not pending isValid is false and
\* errors holds 'Change not found'.
C20_ValidateChange ==
    [][\A id \in QueryIds :
          validateChange(id) =>
              /\ UNCHANGED <<changes, pendingChanges, changeHistory, fs, tasks>>
              /\ LET index == FindIndex(pendingChanges, id)
                 IN  IF index = 0
                     THEN /\ last'.isValid = FALSE
                          /\ "Change not found" \in last'.errors
                     ELSE LET ch == changes[pendingChanges[index]]
                          IN  /\ last'.isValid = FALSE <=> last'.errors # {}
                              /\ "File path is empty" \in last'.errors
                                    <=> ch.filePath \in {"", "  "}
                              /\ "This operation will permanently delete the file"
                                        \in last'.warnings
                                    <=> ch.changeType = "delete"
                              /\ "This is a very large file modification"
                                        \in last'.warnings
                                    <=> ch.newContent = Over]_vars

C20_Witness ==
    /\ last.op = "validateChange" /\ last.change # 0
    /\ last.isValid = FALSE
    /\ changes[last.change].filePath = "  "
    /\ changes[last.change].changeType = "modify"
    /\ changes[last.change].newContent = Edge
    /\ last.warnings = {}

C30_LongestBlockWins ==
    (aiLast.op = "parseAIResponse" /\ aiLast.type # "explain"
        /\ Len(CodeBlocks(aiLast.content)) > 0) =>
        LET blocks == CodeBlocks(aiLast.content)
            longest == CHOOSE k \in 1 .. Len(blocks) :
                          /\ \A j \in 1 .. Len(blocks) : Len(blocks[j]) <= Len(blocks[k])
                          /\ \A j \in 1 .. (k - 1) : Len(blocks[j]) < Len(blocks[k])
            outside == TrimText(RemoveMatches(aiLast.content, Matches(aiLast.content, 1), 1))
        IN  /\ aiLast.code = blocks[longest]
            /\ outside # <<>> => aiLast.explanation = outside
            /\ outside = <<>> => aiLast.explanation = Unset

C30_Witness ==
    /\ aiLast.op = "parseAIResponse" /\ aiLast.type = "modify"
    /\ Len(CodeBlocks(aiLast.content)) = 2
    /\ CodeBlocks(aiLast.content)[1] = <<"+">>
    /\ CodeBlocks(aiLast.content)[2] = <<"-">>
    /\ aiLast.code = <<"+">>
    /\ aiLast.explanation = Unset

\* ------------------------------------------------ AIService: properties
AuthHeaderNames == {"Authorization", "x-api-key", "anthropic-version"}

AuthHeadersOf(headers) == {h \in headers : h[1] \in AuthHeaderNames}

RouterPrefix == "AI request failed: "

KeyMessages ==
    {<<"OpenAI API key is invalid or expired">>,
     <<"Claude API key is invalid or expired">>}

RateMessages ==
    {<<"OpenAI API rate limit exceeded">>, <<"Claude API rate limit exceeded">>}

QuotaMessages ==
    {<<"OpenAI API quota exceeded">>, <<"Claude API quota exceeded">>}

NotRunningMessages ==
    {<<"Ollama server is not running. Please start Ollama and try again.">>,
     <<"LM Studio server is not running. Please start LM Studio and load a model.">>,
     <<"vLLM server is not running. Please start the vLLM server.">>}

\* A message that says the model was not found; a message that only repeats
\* the HTTP status is not one.
IsModelNotFound(message) ==
    /\ Len(message) = 3
    /\ message[2] = config.model
    /\ message[3] = "' not found. Please pull the model first."

\* C21: the client, and every request at the moment it is posted, carries
\* exactly the auth headers of the current provider and API key: Bearer for
\* OpenAI, x-api-key and anthropic-version for Claude, none for the local
\* backends (and none without a key); no header of an earlier configuration.
C21_AuthHeadersCurrent ==
    LET expected ==
            IF currentProvider = "openai" /\ config.apiKey # ""
            THEN {<<"Authorization", <<"Bearer ", config.apiKey>>>>}
            ELSE IF currentProvider = "claude" /\ config.apiKey # ""
            THEN {<<"x-api-key", <<config.apiKey>>>>,
                  <<"anthropic-version", <<"2023-06-01">>>>}
            ELSE {}
    IN  /\ AuthHeadersOf(httpClient.headers) = expected
        /\ (aiLast.op = "sendRequest" /\ aiLast.posts = 1) =>
              AuthHeadersOf(aiLast.headers) = expected

C21_Witness ==
    /\ aiLast.op = "updateOptions"
    /\ aiLast.provider = "openai"
    /\ <<"Authorization", <<"Bearer ", "k1">>>> \in aiLast.headers
    /\ currentProvider = "ollama"
    /\ config.apiKey = "k1"
    /\ AuthHeadersOf(httpClient.headers) = {}

C23_UnsupportedProvider ==
    [][(aiLast'.op = "sendRequest" /\ aiLast' # aiLast
            /\ currentProvider \notin AIProvider) =>
          /\ requests' = requests
          /\ aiLast'.posts = 0
          /\ aiLast'.outcome = "rejected"
          /\ \E i \in 1 .. Len(aiLast'.msg) : aiLast'.msg[i] = currentProvider]_vars

C23_Witness ==
    /\ aiLast.op = "sendRequest"
    /\ aiLast.caller = "sendRequest"
    /\ aiLast.provider = UnknownProvider
    /\ aiLast.ret = "rejected"
    /\ aiLast.posts = 0
    /\ aiLast.msg = <<"AI request failed: ", "Unsupported AI provider: ", "cohere">>

\* C24: a sendRequest that has settled has logged exactly one activity
\* record, with success TRUE exactly when it resolved and, when it rejected,
\* with the error message the rejection carries; one that still waits has
\* logged none.
C24_OneActivityRecord ==
    aiLast.op \in {"sendRequest", "sendRequestComplete"} =>
        IF aiLast.outcome = "none"
        THEN aiLast.activity = <<>>
        ELSE /\ Len(aiLast.activity) = 1
             /\ aiLast.activity[1].success = (aiLast.outcome = "resolved")
             /\ aiLast.activity[1].type = aiLast.type
             /\ aiLast.outcome = "rejected" =>
                   /\ aiLast.activity[1].error # <<>>
                   /\ aiLast.msg = <<RouterPrefix>> \o aiLast.activity[1].error

C24_Witness ==
    /\ aiLast.op = "sendRequestComplete"
    /\ aiLast.provider = "openai"
    /\ aiLast.error.status = "401"
    /\ aiLast.outcome = "rejected"
    /\ aiLast.activity =
          <<[provider |-> "claude", type |-> "write", success |-> FALSE,
             error |-> <<"OpenAI API key is invalid or expired">>]>>

\* C25: for OpenAI and for Claude alike, a 401 rejects with an invalid or
\* expired key message, a 429 with a rate limit message, a 402 with a quota
\* message.
C25_HostedStatusMapping ==
    (aiLast.op = "sendRequestComplete" /\ aiLast.provider \in HostedProviders
        /\ aiLast.error.axios) =>
        /\ aiLast.error.status = "401" =>
              aiLast.outcome = "rejected" /\ Tail(aiLast.msg) \in KeyMessages
        /\ aiLast.error.status = "429" =>
              aiLast.outcome = "rejected" /\ Tail(aiLast.msg) \in RateMessages
        /\ aiLast.error.status = "402" =>
              aiLast.outcome = "rejected" /\ Tail(aiLast.msg) \in QuotaMessages

\* The part of C25 that holds: all of it but the 402 of Claude.
HostedStatusMappingButClaude402 ==
    (aiLast.op = "sendRequestComplete" /\ aiLast.provider \in HostedProviders
        /\ aiLast.error.axios) =>
        /\ aiLast.error.status = "401" =>
              aiLast.outcome = "rejected" /\ Tail(aiLast.msg) \in KeyMessages
        /\ aiLast.error.status = "429" =>
              aiLast.outcome = "rejected" /\ Tail(aiLast.msg) \in RateMessages
        /\ (aiLast.error.status = "402" /\ aiLast.provider = "openai") =>
              aiLast.outcome = "rejected" /\ Tail(aiLast.msg) \in QuotaMessages
        /\ (aiLast.error.status = "402" /\ aiLast.provider = "claude") =>
              aiLast.msg = <<RouterPrefix>> \o aiLast.error.message

\* C26: for each local backend a refused connection is reported as the
\* server not running and a 404 as the model not found; for the hosted
\* backends the message of a 404 passes through.
C26_BackendAwareMapping ==
    (aiLast.op = "sendRequestComplete" /\ aiLast.error.axios) =>
        /\ (aiLast.provider \in LocalProviders /\ aiLast.error.code = "ECONNREFUSED") =>
              Tail(aiLast.msg) \in NotRunningMessages
        /\ (aiLast.provider \in LocalProviders /\ aiLast.error.status = "404") =>
              IsModelNotFound(Tail(aiLast.msg))
        /\ (aiLast.provider \in HostedProviders /\ aiLast.error.status = "404") =>
              aiLast.msg = <<RouterPrefix>> \o aiLast.error.message

\* The part of C26 that holds: the 404 is mapped for Ollama only.
BackendAwareMappingOllama404 ==
    (aiLast.op = "sendRequestComplete" /\ aiLast.error.axios) =>
        /\ (aiLast.provider \in LocalProviders /\ aiLast.error.code = "ECONNREFUSED") =>
              Tail(aiLast.msg) \in NotRunningMessages
        /\ (aiLast.provider = "ollama" /\ aiLast.error.status = "404") =>
              IsModelNotFound(Tail(aiLast.msg))
        /\ (aiLast.provider # "ollama" /\ aiLast.error.status = "404") =>
              aiLast.msg = <<RouterPrefix>> \o aiLast.error.message

\* C27: when the post fails, sendRequest rejects, and the message of its
\* error is the prefix followed by a mapped message or by the message of the
\* transport error.
C27_TransportFailureRejects ==
    (aiLast.op = "sendRequestComplete" /\ aiLast.error \in TransportErrors) =>
        /\ aiLast.outcome = "rejected"
        /\ aiLast.caller = "sendRequest" => aiLast.ret = "rejected"
        /\ aiLast.msg # <<>>
        /\ aiLast.msg[1] = RouterPrefix
        /\ \/ Tail(aiLast.msg) = aiLast.error.message
           \/ Tail(aiLast.msg) \in KeyMessages \cup RateMessages \cup QuotaMessages
                                    \cup NotRunningMessages
           \/ IsModelNotFound(Tail(aiLast.msg))

C27_Witness ==
    /\ aiLast.op = "sendRequestComplete"
    /\ aiLast.caller = "sendRequest"
    /\ aiLast.provider = "lmstudio"
    /\ aiLast.error.code = "ECONNABORTED"
    /\ aiLast.ret = "rejected"
    /\ aiLast.msg = <<"AI request failed: ", "timeout of 30000ms exceeded">>

\* C28: testConnection returns true or false and never rejects: true
\* exactly when the request resolved with a text that holds an o followed
\* by a k, in either case; false otherwise.
C28_TestConnection ==
    (aiLast.caller = "testConnection" /\ aiLast.ret # "suspended") =>
        /\ aiLast.ret \in {"true", "false"}
        /\ aiLast.ret = "true" <=>
              /\ aiLast.outcome = "resolved"
              /\ \E i \in 1 .. (Len(aiLast.content) - 1) :
                    /\ aiLast.content[i] \in {"o", "O"}
                    /\ aiLast.content[i + 1] \in {"k", "K"}

C28_Witness ==
    /\ aiLast.op = "sendRequestComplete"
    /\ aiLast.caller = "testConnection"
    /\ aiLast.content = <<"\n", "O", "k", " ">>
    /\ aiLast.ret = "true"

\* C35: the activity record of a sendRequest names the provider the request
\* was dispatched to, also when updateOptions switched the provider while
\* the post was in flight.
C35_ActivityNamesDispatchedProvider ==
    (aiLast.op = "sendRequestComplete" /\ Len(aiLast.activity) = 1) =>
        aiLast.activity[1].provider = aiLast.provider

\* The part of C35 that holds: the record names the provider that is
\* current when the request settles.
ActivityNamesCurrentProvider ==
    (aiLast.op = "sendRequestComplete" /\ Len(aiLast.activity) = 1) =>
        aiLast.activity[1].provider = currentProvider

C32_UndoKeepsRecord ==
    [][(last'.op = "undoChange" /\ last' # last) =>
          /\ changes' = changes
          /\ pendingChanges' = pendingChanges
          /\ changeHistory' = changeHistory
          /\ last'.io # "none" =>
                /\ changes'[last'.change].status = "applied"
                /\ \E j \in 1 .. Len(changeHistory') : changeHistory'[j] = last'.change
                /\ \E j \in 1 .. Len(changeHistory') :
                      /\ changes'[changeHistory'[j]].id = changes'[last'.change].id
                      /\ changes'[changeHistory'[j]].status = "applied"
                      /\ \A k \in 1 .. (j - 1) :
                            changes'[changeHistory'[k]].id # changes'[last'.change].id]_vars

C32_Witness ==
    /\ last.op = "undoChange"
    /\ last.again
    /\ last.io = "ok"
    /\ changes[last.change].changeType = "modify"
    /\ changes[last.change].status = "applied"
    /\ InHistory(last.change)

\* No other change has the id of change c.
UniqueId(c) == \A d \in AllChanges : d # c => changes[d].id # changes[c].id

\* C33: when applyChange calls for the same pending change interleave at
\* the awaited file operation, the change is in the history at most once
\* (stated for a change whose id no other change has).
C33_ConcurrentApplyOnce ==
    \A c \in AllChanges :
        UniqueId(c) =>
            Cardinality({j \in 1 .. Len(changeHistory) : changeHistory[j] = c}) <= 1

\* C34: a change that cancelChange has cancelled keeps the status Cancelled
\* and does not enter the history, whatever call was in flight for it.
C34_CancelledIsFinal ==
    [][\A c \in AllChanges :
          changes[c].status = "cancelled" =>
              /\ changes'[c].status = "cancelled"
              /\ \A j \in 1 .. Len(changeHistory') : changeHistory'[j] # c]_vars

\* Some change with the id is Applied or Cancelled.
Resolved(id) ==
    \E c \in AllChanges : changes[c].id = id /\ changes[c].status \in {"applied", "cancelled"}

\* C36: an applyChange(id) for the id of a change that is Applied or
\* Cancelled rejects with the not-found message and starts no file
\* operation, and no call that is suspended at a file operation, that of
\* applyAllChanges included, works on an Applied or Cancelled change.
C36_ResolvedNotAppliedAgain ==
    [][/\ \A id \in ChangeIds, dryRun \in BOOLEAN :
            (Resolved(id) /\ applyChange(id, dryRun)) =>
                /\ last'.ret = "throw"
                /\ last'.msg = <<"Change not found: ", id>>
                /\ UNCHANGED <<changes, pendingChanges, changeHistory, fs, tasks>>
       /\ \A s \in Slots :
            tasks'[s].kind \in {"applyChange", "applyAllChanges"} =>
                changes'[tasks'[s].change].status \notin {"applied", "cancelled"}]_vars

\* The part of C36 that holds: the same for ids that one change only has.
ResolvedNotAppliedAgainUniqueIds ==
    [][/\ \A id \in ChangeIds, dryRun \in BOOLEAN :
            (Resolved(id) /\ applyChange(id, dryRun)
                /\ \A c \in AllChanges : changes[c].id = id => UniqueId(c)) =>
                /\ last'.ret = "throw"
                /\ last'.msg = <<"Change not found: ", id>>
                /\ UNCHANGED <<changes, pendingChanges, changeHistory, fs, tasks>>
       /\ \A s \in Slots :
            tasks'[s].kind \in {"applyChange", "applyAllChanges"} =>
                changes'[tasks'[s].change].status \notin {"applied", "cancelled"}]_vars

\* C37: when the write of an undoChange of an applied Modify or Delete
\* succeeds, the file holds what it held immediately before the change was
\* applied (stated for a change whose staging read the file, and for an undo
\* that directly follows the apply).
C37_UndoRestoresPreApplyContent ==
    (UndoReturned /\ last.io = "ok" /\ last.before # "none"
        /\ changes[last.change].changeType \in {"modify", "delete"}
        /\ changes[last.change].originalContent # "") =>
        fs[changes[last.change].filePath] = last.before

\* C38: in applyAIGeneratedCode with askConfirmation = true, a step of the call
\* whose preview is destructive changes no file and no record unless the user
\* chose Apply, whatever autoConfirmNonDestructive is; and when the user
\* declines (Cancel, or the dialog dismissed) the call fails and the files,
\* the change records, the pending array and the history are as before.
EditLeftNothing ==
    /\ fs' = fs
    /\ changes' = changes
    /\ pendingChanges' = pendingChanges
    /\ changeHistory' = changeHistory

C38_DestructiveNeedsApply ==
    [][last'.op = "applyAIGeneratedCode" =>
        /\ (/\ last'.options.askConfirmation
            /\ last'.isDestructive
            /\ last'.choice # "Apply") => EditLeftNothing
        /\ last'.choice \in {"Cancel", Undefined} =>
                (last'.ret = "failure" /\ EditLeftNothing)]_vars

\* A destructive edit with autoConfirmNonDestructive = true that the user
\* declined: the call returned 'User cancelled the operation'.
C38_Witness ==
    /\ last.op = "applyAIGeneratedCode"
    /\ last.options.askConfirmation
    /\ last.options.autoConfirmNonDestructive
    /\ last.options.trackChanges
    /\ last.isDestructive
    /\ last.choice = "Cancel"
    /\ last.ret = "failure"
    /\ last.msg = <<"User cancelled the operation">>
    /\ fs[EditPath] = "OOO"

\* C39: when applyAIGeneratedCode returns with dryRun = true or with
\* success = false, the pending array is the same as before the call: the
\* call leaves no change it created in the pending collection.
C39_NoChangeLeftPending ==
    [][(/\ last'.op = "applyAIGeneratedCode"
        /\ \/ last'.ret = "failure"
           \/ last'.ret = "success" /\ last'.dryRun)
       => pendingChanges' = pendingChanges]_vars

\* The same for the calls that fail before createChange: a request that
\* does not validate and an edit the user declined.
NoChangeLeftPendingBeforeCreate ==
    [][(/\ last'.op = "applyAIGeneratedCode"
        /\ last'.ret = "failure"
        /\ last'.msg \in {<<"Validation failed: ">>,
                          <<"User cancelled the operation">>})
       => pendingChanges' = pendingChanges]_vars

\* How often a text occurs in another.
Occurrences(needle, text) ==
    Cardinality({i \in 1 .. (Len(text) - Len(needle) + 1) :
                    SubSeq(text, i, i + Len(needle) - 1) = needle})

\* A tracked applyAIGeneratedCode that was not a dry run has returned success.
EditApplied ==
    /\ last.op = "applyAIGeneratedCode"
    /\ last.ret = "success"
    /\ ~last.dryRun
    /\ last.options.trackChanges

\* C40: after a successful non-dry-run applyAIGeneratedCode with change
\* tracking the file holds what one application of the edit to the original
\* content gives, and after an Insert the new content occurs in it once.
C40_EditAppliedOnce ==
    EditApplied =>
        /\ fs[last.request.filePath] = last.edited
        /\ last.request.editType = "insert" =>
                Occurrences(last.request.newContent, fs[last.request.filePath]) = 1

\* The same for every edit type but Insert.
EditAppliedOnceButInsert ==
    (EditApplied /\ last.request.editType # "insert") =>
        fs[last.request.filePath] = last.edited

====
